---- MODULE Spec2Model ----
(***************************************************************************)
(* The JSON-file storage layer of ui-note-service: note-storage.ts         *)
(* (notes, labels, uploads) and task-storage.ts (tasks, task labels,       *)
(* task-uploads), user-storage.ts (users), and the HTTP handlers that call *)
(* them.                                                                   *)
(*                                                                         *)
(* A collection file is modelled by the array it parses to.  JSON.stringify*)
(* followed by JSON.parse returns an equal value for the records stored    *)
(* here (strings, finite numbers, arrays and plain objects of these).      *)
(* ISO timestamps are modelled by the clock reading they format:           *)
(* toISOString is monotone, so comparing readings compares the strings.    *)
(* A name is the sequence of its characters.                               *)
(***************************************************************************)
EXTENDS Integers, Sequences, FiniteSets, TLC

VARIABLES
    domain,      \* which storage module this behaviour exercises
    notes,       \* data/notes.json
    labels,      \* data/labels.json
    uploads,     \* file names present in data/uploads
    tasks,       \* data/tasks.json
    taskLabels,  \* data/task-labels.json
    taskUploads, \* file names present in data/task-uploads
    users,       \* data/users.json
    procs,       \* per server process, the storage call it is in
    now,         \* the system clock
    issued,      \* per generator, the number of ids it has returned so far
    calls        \* the number of calls made so far

vars ==
    <<domain, notes, labels, uploads, tasks, taskLabels, taskUploads, users, procs, now,
      issued, calls>>

noteVars == <<notes, labels, uploads>>
taskVars == <<tasks, taskLabels, taskUploads>>

---------------------------------------------------------------------------
(* Bounds of the model *)

MaxTime == 1
MaxCalls == 4
MaxNotes == 2
MaxTasks == 2
MaxLabels == 2
MaxFiles == 2
MaxDraws == 3
MaxBulk == 4
MaxUsers == 2

---------------------------------------------------------------------------
(* Values *)

Users == {"u1", "u2"}
Titles == {"t1", "t2"}
Contents == {"c1"}
Colors == {<<"#", "3", "b", "8", "2", "f", "6">>}
Names == {<<>>, <<"a">>, <<"A">>, <<"b">>}
Statuses == {"Todo", "In Progress", "Done"}

\* Math.random().toString(36).substring(2, 15): up to 13 base-36 digits,
\* none when the draw is 0.  In the behaviours explored a generator does not
\* repeat a draw: its n-th call draws no digits and then n - 1 digits.  The
\* code only compares ids for equality, so which digits are drawn does not
\* matter.  The generators look nothing up: a repeated draw is possible, and
\* the properties stated about the generators range over every draw.
RECURSIVE Digits(_)
Digits(n) == IF n = 0 THEN "" ELSE "k" \o Digits(n - 1)

Min(a, b) == IF a < b THEN a ELSE b

\* The readings a later `new Date()` of the same call can return.
Later(t) == t .. Min(t + 1, MaxTime)

---------------------------------------------------------------------------
(* String.prototype.toLowerCase *)

\* Over the letters the model's names and colours are made of.
LowerChar(c) ==
    CASE c = "A" -> "a" [] c = "B" -> "b" [] c = "C" -> "c" [] c = "D" -> "d"
      [] c = "E" -> "e" [] c = "F" -> "f" [] OTHER -> c

toLowerCase(s) == [i \in 1..Len(s) |-> LowerChar(s[i])]

---------------------------------------------------------------------------
(* Array helpers *)

\* Array.prototype.filter
Filter(seq, keep(_)) == SelectSeq(seq, keep)

\* Array.prototype.findIndex, 1-based; 0 stands for -1.
FindIndex(seq, test(_)) ==
    IF \E i \in 1..Len(seq) : test(seq[i])
    THEN CHOOSE i \in 1..Len(seq) : test(seq[i]) /\ \A j \in 1..(i - 1) : ~test(seq[j])
    ELSE 0

\* Array.prototype.splice(index, 1)
Splice(seq, index) == [i \in 1..(Len(seq) - 1) |-> IF i < index THEN seq[i] ELSE seq[i + 1]]

\* Array.prototype.find(...) || null; <<>> stands for null, <<r>> for the record r.
Find(seq, test(_)) ==
    LET i == FindIndex(seq, test) IN IF i = 0 THEN <<>> ELSE <<seq[i]>>

---------------------------------------------------------------------------
(* The environment of one call: whether its reads and writes of the       *)
(* collection files succeed, and which unlink calls throw.                *)

(* readOk and writeOk are the first read and write of the call, read2Ok and *)
(* write2Ok the second ones (deleteLabel reads and writes two files).      *)
(* fs.writeFileSync opens the file with flag 'w', which empties it, and    *)
(* then writes: `cut` tells whether the failing write of the call throws   *)
(* after the file was emptied (no space left) or before (no permission).   *)

NoFault == [readOk |-> TRUE, read2Ok |-> TRUE, writeOk |-> TRUE, write2Ok |-> TRUE,
            cut |-> FALSE, unlinkFails |-> {}]

\* At most one failing read or write in a call of one read and one write.
Env1(faults) ==
    IF faults
    THEN {NoFault, [NoFault EXCEPT !.readOk = FALSE], [NoFault EXCEPT !.writeOk = FALSE],
          [NoFault EXCEPT !.writeOk = FALSE, !.cut = TRUE]}
    ELSE {NoFault}

\* The same for deleteLabel's two reads and two writes.
Env2(faults) ==
    IF faults
    THEN Env1(faults) \cup {[NoFault EXCEPT !.read2Ok = FALSE],
                            [NoFault EXCEPT !.write2Ok = FALSE],
                            [NoFault EXCEPT !.write2Ok = FALSE, !.cut = TRUE]}
    ELSE {NoFault}

\* The same with any of the files of `dir` failing to unlink.
EnvU(faults, dir) ==
    IF faults
    THEN {[e EXCEPT !.unlinkFails = S] : e \in Env1(faults), S \in SUBSET dir}
    ELSE {NoFault}

---------------------------------------------------------------------------
(* Collection store *)

\* The read that answers with the stored array whether or not the read throws.
readFileKept(file, e) == file

\* readNotes / readLabels / readTasks / readTaskLabels / readUsers: [] when
\* the read or the parse throws.
readFile(file, e) == IF e.readOk THEN file ELSE <<>>

\* writeNotes / writeLabels / writeTasks / writeTaskLabels: the new content,
\* or the error thrown with the file left as it was or cut short.  A file cut
\* short does not parse, and every reader takes it for [].
writeFile(file, content, e, failure) ==
    IF e.writeOk THEN [file |-> content, thrown |-> ""]
    ELSE [file |-> IF e.cut THEN <<>> ELSE file, thrown |-> failure]

---------------------------------------------------------------------------
(* Identifier generator *)

\* The generator without its prefix.
generateNoteIdBare(r1, r2) == r1 \o r2

generateNoteId(r1, r2) == "note_" \o r1 \o r2
generateLabelId(r1, r2) == "label_" \o r1 \o r2
generateFileId(r1, r2) == "file_" \o r1 \o r2
generateTaskId(r1, r2) == "task_" \o r1 \o r2
generateTaskLabelId(r1, r2) == "task_label_" \o r1 \o r2
generateTaskFileId(r1, r2) == "task_file_" \o r1 \o r2

---------------------------------------------------------------------------
(* Label repositories: createLabel / createTaskLabel, updateLabel /        *)
(* updateTaskLabel, deleteLabel / deleteTaskLabel are the same code over   *)
(* their own files and messages.                                           *)

LabelExists == "Label with this name already exists"
TaskLabelExists == "Task label with this name already exists"
NoteSaveFailed == "Failed to save note data"
LabelSaveFailed == "Failed to save label data"
TaskSaveFailed == "Failed to save task data"
TaskLabelSaveFailed == "Failed to save task label data"

\* The comparison without toLowerCase.
NameTakenExact(ls, name) ==
    \E i \in 1..Len(ls) : ls[i].name = name

\* labels.some(label => label.name.toLowerCase() === labelData.name.toLowerCase())
NameTaken(ls, name) ==
    \E i \in 1..Len(ls) : toLowerCase(ls[i].name) = toLowerCase(name)

CreateLabelIn(file, labelData, id, t1, t2, e, exists, failure) ==
    LET ls == readFile(file, e) IN
    IF NameTaken(ls, labelData.name)
    THEN [file |-> file, thrown |-> exists, ret |-> <<>>]
    ELSE LET newLabel == ("id" :> id) @@ ("createdAt" :> t1) @@ ("updatedAt" :> t2)
                             @@ labelData
             w == writeFile(file, Append(ls, newLabel), e, failure)
         IN  [file |-> w.file, thrown |-> w.thrown,
              ret |-> IF w.thrown = "" THEN <<newLabel>> ELSE <<>>]

\* if (updates.name): a missing name and the empty string are both falsy.
Truthy(updates, field) == field \in DOMAIN updates /\ updates[field] # <<>>

\* labels.find(label => label.id !== id && label.name.toLowerCase() === ...)
NameConflict(ls, id, updates) ==
    /\ Truthy(updates, "name")
    /\ \E i \in 1..Len(ls) :
           ls[i].id # id /\ toLowerCase(ls[i].name) = toLowerCase(updates.name)

UpdateLabelIn(file, id, updates, t, e, exists, failure) ==
    LET ls == readFile(file, e)
        labelIndex == FindIndex(ls, LAMBDA l : l.id = id)
    IN
    IF labelIndex = 0 THEN [file |-> file, thrown |-> "", ret |-> <<>>]
    ELSE IF NameConflict(ls, id, updates)
    THEN [file |-> file, thrown |-> exists, ret |-> <<>>]
    ELSE LET updatedLabel == ("updatedAt" :> t) @@ updates @@ ls[labelIndex]
             w == writeFile(file, [ls EXCEPT ![labelIndex] = updatedLabel], e, failure)
         IN  [file |-> w.file, thrown |-> w.thrown,
              ret |-> IF w.thrown = "" THEN <<updatedLabel>> ELSE <<>>]

\* The map without the new updatedAt.
StripLabelOnly(parents, id, stamps) ==
    [i \in 1..Len(parents) |->
        ("labels" :> Filter(parents[i].labels, LAMBDA l : l.id # id)) @@ parents[i]]

\* notes.map(note => ({...note, labels: note.labels.filter(...), updatedAt: new Date()}))
StripLabel(parents, id, stamps) ==
    [i \in 1..Len(parents) |->
        ("labels" :> Filter(parents[i].labels, LAMBDA l : l.id # id))
        @@ ("updatedAt" :> stamps[i]) @@ parents[i]]

\* readLabels, readNotes, writeNotes, writeLabels, in this order.
DeleteLabelIn(file, parentFile, id, stamps, e, failure, parentFailure) ==
    LET ls == readFile(file, e)
        labelIndex == FindIndex(ls, LAMBDA l : l.id = id)
        e2 == [e EXCEPT !.readOk = e.read2Ok]
        e3 == [e EXCEPT !.writeOk = e.write2Ok]
    IN
    IF labelIndex = 0
    THEN [file |-> file, parentFile |-> parentFile, thrown |-> "", ret |-> <<FALSE>>]
    ELSE LET parents == readFile(parentFile, e2)
             w1 == writeFile(parentFile, StripLabel(parents, id, stamps), e, parentFailure)
             w2 == writeFile(file, Splice(ls, labelIndex), e3, failure)
         IN  IF w1.thrown # ""
             THEN [file |-> file, parentFile |-> w1.file, thrown |-> w1.thrown,
                   ret |-> <<>>]
             ELSE [file |-> w2.file, parentFile |-> w1.file, thrown |-> w2.thrown,
                   ret |-> IF w2.thrown = "" THEN <<TRUE>> ELSE <<>>]

\* findLabelById / findTaskLabelById, findLabelsByIds / findTaskLabelsByIds
findLabelById(file, id) == Find(file, LAMBDA l : l.id = id)
findLabelsByIds(file, ids) == Filter(file, LAMBDA l : l.id \in ids)

---------------------------------------------------------------------------
(* Note repository and task repository: the same code over notes.json and  *)
(* data/uploads, and over tasks.json and data/task-uploads.                *)

findNoteById(file, id) == Find(file, LAMBDA r : r.id = id)
findNoteByIdAndUserId(file, id, userId) ==
    Find(file, LAMBDA r : r.id = id /\ r.userId = userId)
findNotesByUserId(file, userId) == Filter(file, LAMBDA r : r.userId = userId)
findTasksByUserIdAndStatus(file, userId, status) ==
    Filter(file, LAMBDA task : task.userId = userId /\ task.status = status)

\* createNote / createTask: {...data, id, createdAt: new Date(), updatedAt: new Date()}
CreateIn(file, data, id, t1, t2, e, failure) ==
    LET rs == readFile(file, e)
        newRecord == ("id" :> id) @@ ("createdAt" :> t1) @@ ("updatedAt" :> t2) @@ data
        w == writeFile(file, Append(rs, newRecord), e, failure)
    IN  [file |-> w.file, thrown |-> w.thrown,
         ret |-> IF w.thrown = "" THEN <<newRecord>> ELSE <<>>]

\* The update that looks the record up by id alone.
UpdateInById(file, id, userId, updates, t, e, failure) ==
    LET rs == readFile(file, e)
        index == FindIndex(rs, LAMBDA r : r.id = id)
    IN
    IF index = 0 THEN [file |-> file, thrown |-> "", ret |-> <<>>]
    ELSE LET updated == ("updatedAt" :> t) @@ updates @@ rs[index]
             w == writeFile(file, [rs EXCEPT ![index] = updated], e, failure)
         IN  [file |-> w.file, thrown |-> w.thrown,
              ret |-> IF w.thrown = "" THEN <<updated>> ELSE <<>>]

\* The update of a workflow that only moves forward: Todo, In Progress, Done.
UpdateInForwardOnly(file, id, userId, updates, t, e, failure) ==
    LET rs == readFile(file, e)
        index == FindIndex(rs, LAMBDA r : r.id = id /\ r.userId = userId)
        rank == [st \in {"Todo", "In Progress", "Done"} |->
                    IF st = "Todo" THEN 1 ELSE IF st = "In Progress" THEN 2 ELSE 3]
        backward == /\ index # 0
                    /\ "status" \in DOMAIN updates
                    /\ "status" \in DOMAIN rs[index]
                    /\ rank[updates.status] < rank[rs[index].status]
    IN
    IF index = 0 \/ backward THEN [file |-> file, thrown |-> "", ret |-> <<>>]
    ELSE LET updated == ("updatedAt" :> t) @@ updates @@ rs[index]
             w == writeFile(file, [rs EXCEPT ![index] = updated], e, failure)
         IN  [file |-> w.file, thrown |-> w.thrown,
              ret |-> IF w.thrown = "" THEN <<updated>> ELSE <<>>]

\* The update that spreads `updates` last: {...record, updatedAt, ...updates}.
UpdateInSpreadLast(file, id, userId, updates, t, e, failure) ==
    LET rs == readFile(file, e)
        index == FindIndex(rs, LAMBDA r : r.id = id /\ r.userId = userId)
    IN
    IF index = 0 THEN [file |-> file, thrown |-> "", ret |-> <<>>]
    ELSE LET updated == updates @@ ("updatedAt" :> t) @@ rs[index]
             w == writeFile(file, [rs EXCEPT ![index] = updated], e, failure)
         IN  [file |-> w.file, thrown |-> w.thrown,
              ret |-> IF w.thrown = "" THEN <<updated>> ELSE <<>>]

\* updateNote / updateTask: {...notes[noteIndex], ...updates, updatedAt: new Date()}
UpdateIn(file, id, userId, updates, t, e, failure) ==
    LET rs == readFile(file, e)
        index == FindIndex(rs, LAMBDA r : r.id = id /\ r.userId = userId)
    IN
    IF index = 0 THEN [file |-> file, thrown |-> "", ret |-> <<>>]
    ELSE LET updated == ("updatedAt" :> t) @@ updates @@ rs[index]
             w == writeFile(file, [rs EXCEPT ![index] = updated], e, failure)
         IN  [file |-> w.file, thrown |-> w.thrown,
              ret |-> IF w.thrown = "" THEN <<updated>> ELSE <<>>]

\* The loop inside one try: it ends at the first unlink that throws.
UnlinkUntilThrow(dir, files, e) ==
    LET bad == FindIndex(files, LAMBDA f : f.path \in dir /\ f.path \in e.unlinkFails)
        last == IF bad = 0 THEN Len(files) ELSE bad - 1
    IN  dir \ {files[i].path : i \in 1..last}

\* files.forEach(file => { try { if (existsSync) unlinkSync } catch { log } }):
\* the directory once every listed file was tried.
Unlink(dir, files, e) ==
    dir \ {files[i].path : i \in {j \in 1..Len(files) : files[j].path \notin e.unlinkFails}}

\* The delete that looks the record up by id alone.
DeleteInById(file, dir, id, userId, e, failure) ==
    LET rs == readFile(file, e)
        index == FindIndex(rs, LAMBDA r : r.id = id)
    IN
    IF index = 0 THEN [file |-> file, dir |-> dir, thrown |-> "", ret |-> <<FALSE>>]
    ELSE LET w == writeFile(file, Splice(rs, index), e, failure)
         IN  [file |-> w.file, dir |-> Unlink(dir, rs[index].files, e),
              thrown |-> w.thrown, ret |-> IF w.thrown = "" THEN <<TRUE>> ELSE <<>>]

\* deleteNote / deleteTask
DeleteIn(file, dir, id, userId, e, failure) ==
    LET rs == readFile(file, e)
        index == FindIndex(rs, LAMBDA r : r.id = id /\ r.userId = userId)
    IN
    IF index = 0 THEN [file |-> file, dir |-> dir, thrown |-> "", ret |-> <<FALSE>>]
    ELSE LET w == writeFile(file, Splice(rs, index), e, failure)
         IN  [file |-> w.file, dir |-> Unlink(dir, rs[index].files, e),
              thrown |-> w.thrown, ret |-> IF w.thrown = "" THEN <<TRUE>> ELSE <<>>]

\* addFileToNote / addFileToTask
AddFileIn(file, id, userId, f, t, e, failure) ==
    LET rs == readFile(file, e)
        index == FindIndex(rs, LAMBDA r : r.id = id /\ r.userId = userId)
    IN
    IF index = 0 THEN [file |-> file, thrown |-> "", ret |-> <<>>]
    ELSE LET updated == ("files" :> Append(rs[index].files, f)) @@ ("updatedAt" :> t)
                            @@ rs[index]
             w == writeFile(file, [rs EXCEPT ![index] = updated], e, failure)
         IN  [file |-> w.file, thrown |-> w.thrown,
              ret |-> IF w.thrown = "" THEN <<updated>> ELSE <<>>]

\* removeFileFromNote / removeFileFromTask
RemoveFileIn(file, dir, id, userId, fileId, t, e, failure) ==
    LET rs == readFile(file, e)
        index == FindIndex(rs, LAMBDA r : r.id = id /\ r.userId = userId)
    IN
    IF index = 0 THEN [file |-> file, dir |-> dir, thrown |-> "", ret |-> <<>>]
    ELSE LET fileToRemove == Find(rs[index].files, LAMBDA f : f.id = fileId)
             updated == ("files" :> Filter(rs[index].files, LAMBDA f : f.id # fileId))
                            @@ ("updatedAt" :> t) @@ rs[index]
             w == writeFile(file, [rs EXCEPT ![index] = updated], e, failure)
         IN  [file |-> w.file, dir |-> Unlink(dir, fileToRemove, e),
              thrown |-> w.thrown, ret |-> IF w.thrown = "" THEN <<updated>> ELSE <<>>]

\* The bulk delete whose second filter forgets the user.
DeleteAllDoneOfAll(file, dir, userId, e, failure) ==
    LET rs == readFile(file, e)
        doneTasks == Filter(rs, LAMBDA r : r.userId = userId /\ r.status = "Done")
        remainingTasks == Filter(rs, LAMBDA r : ~(r.status = "Done"))
        gone == UNION {{doneTasks[i].files[j].path : j \in 1..Len(doneTasks[i].files)} :
                          i \in 1..Len(doneTasks)}
        w == writeFile(file, remainingTasks, e, failure)
    IN  [file |-> w.file, dir |-> dir \ (gone \ e.unlinkFails),
         thrown |-> w.thrown, ret |-> IF w.thrown = "" THEN <<Len(doneTasks)>> ELSE <<>>]

\* deleteAllDoneTasks
DeleteAllDone(file, dir, userId, e, failure) ==
    LET rs == readFile(file, e)
        doneTasks == Filter(rs, LAMBDA r : r.userId = userId /\ r.status = "Done")
        remainingTasks == Filter(rs, LAMBDA r : ~(r.userId = userId /\ r.status = "Done"))
        gone == UNION {{doneTasks[i].files[j].path : j \in 1..Len(doneTasks[i].files)} :
                          i \in 1..Len(doneTasks)}
        w == writeFile(file, remainingTasks, e, failure)
    IN  [file |-> w.file, dir |-> dir \ (gone \ e.unlinkFails),
         thrown |-> w.thrown, ret |-> IF w.thrown = "" THEN <<Len(doneTasks)>> ELSE <<>>]

---------------------------------------------------------------------------
(* User repository: user-storage.ts over users.json.  An email is the      *)
(* sequence of its characters.                                             *)

UserExists == "User with this email already exists"
UserSaveFailed == "Failed to save user data"

generateUserId(r1, r2) == "user_" \o r1 \o r2

\* The lookup that compares the emails as they are written.
findUserByEmailExact(file, email) == Find(file, LAMBDA user : user.email = email)

\* findUserByEmail: user.email.toLowerCase() === email.toLowerCase()
findUserByEmail(file, email) ==
    Find(file, LAMBDA user : toLowerCase(user.email) = toLowerCase(email))

findUserById(file, id) == Find(file, LAMBDA user : user.id = id)

\* createUser: readUsers, then findUserByEmail (which reads again), then
\* writeUsers of the array read first with the new user pushed.
CreateUserIn(file, userData, id, t1, t2, e) ==
    LET us == readFile(file, e)
        e2 == [e EXCEPT !.readOk = e.read2Ok]
    IN
    IF findUserByEmail(readFile(file, e2), userData.email) # <<>>
    THEN [file |-> file, thrown |-> UserExists, ret |-> <<>>]
    ELSE LET newUser == ("id" :> id) @@ ("createdAt" :> t1) @@ ("updatedAt" :> t2)
                            @@ userData
             w == writeFile(file, Append(us, newUser), e, UserSaveFailed)
         IN  [file |-> w.file, thrown |-> w.thrown,
              ret |-> IF w.thrown = "" THEN <<newUser>> ELSE <<>>]

---------------------------------------------------------------------------
(* HTTP handlers of the label routes.  A response is its status; `thrown` *)
(* is the error the handler caught, "" when none.                         *)

\* request.headers.get('x-user-id') when the header is missing or empty.
NoUser == ""

\* String.prototype.trim
RECURSIVE trimStart(_)
trimStart(s) == IF s # <<>> /\ Head(s) = " " THEN trimStart(Tail(s)) ELSE s

RECURSIVE trimEnd(_)
trimEnd(s) ==
    IF s # <<>> /\ s[Len(s)] = " " THEN trimEnd(SubSeq(s, 1, Len(s) - 1)) ELSE s

trim(s) == trimEnd(trimStart(s))

\* /^#[0-9A-F]{6}$/i
HexDigits ==
    {"0", "1", "2", "3", "4", "5", "6", "7", "8", "9",
     "a", "b", "c", "d", "e", "f", "A", "B", "C", "D", "E", "F"}

IsHexColor(c) ==
    /\ Len(c) = 7
    /\ c[1] = "#"
    /\ \A i \in 2..7 : c[i] \in HexDigits

\* error.message.includes('already exists'), over the messages the storage throws
includesAlreadyExists(message) == message \in {LabelExists, TaskLabelExists}

\* POST /api/labels
PostLabels(file, userIdHeader, body, id, t1, t2, e) ==
    IF userIdHeader = NoUser
    THEN [file |-> file, status |-> 401, thrown |-> ""]
    ELSE IF ~Truthy(body, "name") \/ ~Truthy(body, "color")
    THEN [file |-> file, status |-> 400, thrown |-> ""]
    ELSE IF ~IsHexColor(body.color)
    THEN [file |-> file, status |-> 400, thrown |-> ""]
    ELSE LET r == CreateLabelIn(file,
                      [name |-> trim(body.name), color |-> toLowerCase(body.color)],
                      id, t1, t2, e, LabelExists, LabelSaveFailed)
         IN  [file |-> r.file, thrown |-> r.thrown,
              status |-> IF r.thrown = "" THEN 201
                         ELSE IF r.thrown = LabelExists THEN 409 ELSE 500]

\* POST /api/tasks/labels
PostTaskLabels(file, userIdHeader, body, id, t1, t2, e) ==
    IF userIdHeader = NoUser
    THEN [file |-> file, status |-> 401, thrown |-> ""]
    ELSE IF ~Truthy(body, "name") \/ ~Truthy(body, "color")
    THEN [file |-> file, status |-> 400, thrown |-> ""]
    ELSE LET r == CreateLabelIn(file, [name |-> trim(body.name), color |-> body.color],
                      id, t1, t2, e, TaskLabelExists, TaskLabelSaveFailed)
         IN  [file |-> r.file, thrown |-> r.thrown,
              status |-> IF r.thrown = "" THEN 201
                         ELSE IF includesAlreadyExists(r.thrown) THEN 409 ELSE 500]

\* DELETE /api/labels/{id}: any authenticated caller, deleteLabel(params.id)
DeleteLabelById(file, parentFile, userIdHeader, id, stamps, e) ==
    IF userIdHeader = NoUser
    THEN [file |-> file, parentFile |-> parentFile, status |-> 401, thrown |-> ""]
    ELSE LET r == DeleteLabelIn(file, parentFile, id, stamps, e, LabelSaveFailed,
                                NoteSaveFailed)
         IN  [file |-> r.file, parentFile |-> r.parentFile, thrown |-> r.thrown,
              status |-> IF r.thrown # "" THEN 500
                         ELSE IF r.ret = <<FALSE>> THEN 404 ELSE 200]

\* The handler that calls deleteAllDoneTasks whatever the status parameter.
DeleteTasksAnyStatus(file, dir, userIdHeader, status, e) ==
    IF userIdHeader = NoUser
    THEN [file |-> file, dir |-> dir, status |-> 401, deletedCount |-> <<>>]
    ELSE LET r == DeleteAllDone(file, dir, userIdHeader, e, TaskSaveFailed)
         IN  [file |-> r.file, dir |-> r.dir,
              status |-> IF r.thrown = "" THEN 200 ELSE 500, deletedCount |-> r.ret]

\* DELETE /api/tasks?status=...: `status` is <<>> when the parameter is
\* missing (searchParams.get gives null), <<v>> when its value is v.
DeleteTasks(file, dir, userIdHeader, status, e) ==
    IF userIdHeader = NoUser
    THEN [file |-> file, dir |-> dir, status |-> 401, deletedCount |-> <<>>]
    ELSE IF status # <<"Done">>
    THEN [file |-> file, dir |-> dir, status |-> 400, deletedCount |-> <<>>]
    ELSE LET r == DeleteAllDone(file, dir, userIdHeader, e, TaskSaveFailed)
         IN  [file |-> r.file, dir |-> r.dir,
              status |-> IF r.thrown = "" THEN 200 ELSE 500, deletedCount |-> r.ret]

\* Clock readings count milliseconds.  A time zone is the reading its offset
\* from UTC changes at and the offsets before and from that reading on.
DueDays == 2
MsPerHour == 3600000
MsPerDay == 24 * MsPerHour
UTC == [at |-> 0, before |-> 0, after |-> 0]
Zones ==
    {UTC, [at |-> MsPerDay, before |-> MsPerHour, after |-> 2 * MsPerHour],
          [at |-> MsPerDay, before |-> 2 * MsPerHour, after |-> MsPerHour]}

offset(zone, t) == IF t < zone.at THEN zone.before ELSE zone.after

\* generateDefaultDueDate: date = new Date(); date.setDate(date.getDate() + 2);
\* date.toISOString().  setDate moves the local date: the result is the UTC
\* time of the same local time two local days later; a local time that two
\* UTC times have is the earlier one, a local time that none has is read with
\* the offset before the change.
generateDefaultDueDate(t, zone) ==
    LET local == t + offset(zone, t) + DueDays * MsPerDay
        early == local - zone.before
        late == local - zone.after
    IN  IF early < zone.at THEN early ELSE IF late >= zone.at THEN late ELSE early

\* !body.title for a string: missing and '' are falsy.
TruthyString(body, field) == field \in DOMAIN body /\ body[field] # ""

\* POST /api/notes
PostNotes(file, labelFile, userIdHeader, body, id, t1, t2, e) ==
    IF userIdHeader = NoUser
    THEN [file |-> file, status |-> 401, note |-> <<>>]
    ELSE IF ~TruthyString(body, "title") \/ ~TruthyString(body, "content")
    THEN [file |-> file, status |-> 400, note |-> <<>>]
    ELSE LET labelsFound ==
                 IF "labelIds" \in DOMAIN body
                 THEN findLabelsByIds(readFile(labelFile, e), body.labelIds) ELSE <<>>
             r == CreateIn(file,
                           [title |-> body.title, content |-> body.content,
                            userId |-> userIdHeader, labels |-> labelsFound,
                            files |-> <<>>],
                           id, t1, t2, e, NoteSaveFailed)
         IN  [file |-> r.file, status |-> IF r.thrown = "" THEN 201 ELSE 500,
              note |-> r.ret]

\* The update data without the labels of body.labelIds.
NoteUpdatesOfPlain(body, labelFile, e) ==
    [f \in DOMAIN body \cap {"title", "content"} |-> body[f]]

\* The fields of `body` that are not undefined, labelIds replaced by the labels found.
NoteUpdatesOf(body, labelFile, e) ==
    LET plain == DOMAIN body \cap {"title", "content"}
        fields == plain \cup (IF "labelIds" \in DOMAIN body THEN {"labels"} ELSE {})
    IN  [f \in fields |->
            IF f = "labels" THEN findLabelsByIds(readFile(labelFile, e), body.labelIds)
            ELSE body[f]]

\* PUT /api/notes/{id}
PutNote(file, labelFile, userIdHeader, id, body, t, e) ==
    IF userIdHeader = NoUser
    THEN [file |-> file, status |-> 401, note |-> <<>>]
    ELSE LET r == UpdateIn(file, id, userIdHeader, NoteUpdatesOf(body, labelFile, e), t, e,
                           NoteSaveFailed)
         IN  [file |-> r.file, note |-> r.ret,
              status |-> IF r.thrown # "" THEN 500
                         ELSE IF r.ret = <<>> THEN 404 ELSE 200]

\* /^[^\s@]+@[^\s@]+\.[^\s@]+$/ : three non-empty runs without white space
\* and '@', the first two separated by '@', the last two by '.'.
NoSpaceNoAt(s, from, to) ==
    from <= to /\ \A k \in from..to : s[k] \notin {" ", "@"}
emailRegexTest(s) ==
    \E i \in 1..Len(s) : \E j \in 1..Len(s) :
        /\ s[i] = "@" /\ s[j] = "."
        /\ NoSpaceNoAt(s, 1, i - 1)
        /\ NoSpaceNoAt(s, i + 1, j - 1)
        /\ NoSpaceNoAt(s, j + 1, Len(s))

MinPassword == 6

\* POST /api/auth/signup: e0 is the environment of the handler's own
\* findUserByEmail, e the one of createUser.
PostSignup(file, body, id, t1, t2, e0, e) ==
    IF \/ ~Truthy(body, "email") \/ ~TruthyString(body, "password")
       \/ ~TruthyString(body, "name") \/ ~TruthyString(body, "confirmPassword")
    THEN [file |-> file, status |-> 400, thrown |-> "", user |-> <<>>]
    ELSE IF body.password # body.confirmPassword
    THEN [file |-> file, status |-> 400, thrown |-> "", user |-> <<>>]
    ELSE IF Len(body.password) < MinPassword
    THEN [file |-> file, status |-> 400, thrown |-> "", user |-> <<>>]
    ELSE IF ~emailRegexTest(body.email)
    THEN [file |-> file, status |-> 400, thrown |-> "", user |-> <<>>]
    ELSE IF findUserByEmail(readFile(file, e0), body.email) # <<>>
    THEN [file |-> file, status |-> 409, thrown |-> "", user |-> <<>>]
    ELSE LET r == CreateUserIn(file,
                               [email |-> toLowerCase(body.email),
                                password |-> body.password, name |-> body.name],
                               id, t1, t2, e)
         IN  [file |-> r.file, status |-> IF r.thrown = "" THEN 201 ELSE 500,
              thrown |-> r.thrown,
              user |-> r.ret]

\* '' where a timestamp is expected, and !body.dueDate.
NoDate == 0 - 1
TruthyDate(body, field) == field \in DOMAIN body /\ body[field] # NoDate

\* POST /api/tasks: t0 is the clock reading of generateDefaultDueDate, t1 and
\* t2 are the readings of createTask.
PostTasks(file, labelFile, userIdHeader, body, id, t0, t1, t2, zone, e) ==
    IF userIdHeader = NoUser
    THEN [file |-> file, status |-> 401, task |-> <<>>]
    ELSE IF ~TruthyString(body, "title") \/ ~TruthyString(body, "content")
    THEN [file |-> file, status |-> 400, task |-> <<>>]
    ELSE LET taskLabelsFound ==
                 IF "labelIds" \in DOMAIN body
                 THEN findLabelsByIds(readFile(labelFile, e), body.labelIds) ELSE <<>>
             status == IF TruthyString(body, "status") THEN body.status ELSE "Todo"
             dueDate == IF TruthyDate(body, "dueDate") THEN body.dueDate
                        ELSE generateDefaultDueDate(t0, zone)
             r == CreateIn(file,
                           [title |-> body.title, content |-> body.content,
                            userId |-> userIdHeader, status |-> status,
                            dueDate |-> dueDate, labels |-> taskLabelsFound,
                            files |-> <<>>],
                           id, t1, t2, e, TaskSaveFailed)
         IN  [file |-> r.file, status |-> IF r.thrown = "" THEN 201 ELSE 500,
              task |-> r.ret]

\* The fields of `body` that are not undefined, labelIds replaced by the labels found.
TaskUpdatesOf(body, labelFile, e) ==
    LET plain == DOMAIN body \cap {"title", "content", "status", "dueDate"}
        fields == plain \cup (IF "labelIds" \in DOMAIN body THEN {"labels"} ELSE {})
    IN  [f \in fields |->
            IF f = "labels" THEN findLabelsByIds(readFile(labelFile, e), body.labelIds)
            ELSE body[f]]

\* PUT /api/tasks/{id}
PutTask(file, labelFile, userIdHeader, id, body, t, e) ==
    IF userIdHeader = NoUser
    THEN [file |-> file, status |-> 401, task |-> <<>>]
    ELSE LET r == UpdateIn(file, id, userIdHeader, TaskUpdatesOf(body, labelFile, e), t, e,
                           TaskSaveFailed)
         IN  [file |-> r.file, task |-> r.ret,
              status |-> IF r.thrown # "" THEN 500
                         ELSE IF r.ret = <<>> THEN 404 ELSE 200]

---------------------------------------------------------------------------
(* Inputs *)

Kinds == {"note", "label", "file", "task", "task_label", "task_file", "user"}

Empty == [f \in {} |-> 0]

LabelData == [name : Names, color : Colors]

\* Request bodies of the label routes: name and color, each possibly missing.
BodyNames == Names \cup {<<" ">>, <<" ", "a">>, <<"A", " ">>}
BodyColors == Colors \cup {<<"#", "3", "B", "8", "2", "F", "6">>, <<"r", "e", "d">>, <<>>}
LabelBodies ==
    {Empty} \cup {("name" :> n) : n \in BodyNames} \cup {("color" :> c) : c \in BodyColors}
    \cup {("name" :> n) @@ ("color" :> c) : n \in BodyNames, c \in BodyColors}

Headers == Users \cup {NoUser}

\* Partial<Omit<Label, 'id' | 'createdAt'>>
LabelUpdates ==
    {Empty} \cup {("name" :> n) : n \in Names} \cup {("color" :> c) : c \in Colors}
    \cup {("updatedAt" :> 0)}

IdsOf(file) == {file[i].id : i \in 1..Len(file)}

\* The ids a caller may pass: those of the records, and one of no record.
NoteIdArgs == IdsOf(notes) \cup {"note_none"}
LabelIdArgs == IdsOf(labels) \cup {"label_none"}
TaskIdArgs == IdsOf(tasks) \cup {"task_none"}
TaskLabelIdArgs == IdsOf(taskLabels) \cup {"task_label_none"}

\* Label arrays as the handlers build them: findLabelsByIds(body.labelIds).
LabelArrays(file, idArgs) == {findLabelsByIds(file, S) : S \in SUBSET idArgs}

\* Omit<Note, 'id' | 'createdAt' | 'updatedAt'>
NoteData ==
    [title : {"t1"}, content : Contents, userId : Users,
     labels : LabelArrays(labels, LabelIdArgs), files : {<<>>}]

\* Partial<Omit<Note, 'id' | 'userId' | 'createdAt'>>
NoteUpdates ==
    {Empty} \cup {("title" :> t) : t \in Titles}
    \cup {("labels" :> ls) : ls \in LabelArrays(labels, LabelIdArgs)}
    \cup {("updatedAt" :> 0)}


\* Omit<Task, 'id' | 'createdAt' | 'updatedAt'>
TaskData ==
    [title : {"t1"}, content : Contents, userId : Users, status : Statuses,
     dueDate : {generateDefaultDueDate(now, UTC)},
     labels : LabelArrays(taskLabels, TaskLabelIdArgs), files : {<<>>}]

\* Partial<Omit<Task, 'id' | 'userId' | 'createdAt'>>
TaskUpdates ==
    {Empty} \cup {("status" :> st) : st \in Statuses}
    \cup {("labels" :> ls) : ls \in LabelArrays(taskLabels, TaskLabelIdArgs)}
    \cup {("updatedAt" :> 0)}

\* MIME types, as the sequences of their characters.
ImageJpeg == <<"i", "m", "a", "g", "e", "/", "j", "p", "e", "g">>
ImageJpg == <<"i", "m", "a", "g", "e", "/", "j", "p", "g">>
ImagePng == <<"i", "m", "a", "g", "e", "/", "p", "n", "g">>
ImageGif == <<"i", "m", "a", "g", "e", "/", "g", "i", "f">>
ImageWebp == <<"i", "m", "a", "g", "e", "/", "w", "e", "b", "p">>
ImageSvg == <<"i", "m", "a", "g", "e", "/", "s", "v", "g", "+", "x", "m", "l">>
ApplicationPdf == <<"a", "p", "p", "l", "i", "c", "a", "t", "i", "o", "n", "/", "p", "d", "f">>
ApplicationZip == <<"a", "p", "p", "l", "i", "c", "a", "t", "i", "o", "n", "/", "z", "i", "p">>
TextPlain == <<"t", "e", "x", "t", "/", "p", "l", "a", "i", "n">>

\* file.type of an upload: the browser's MIME type of the file.
FileTypes == {ImagePng, ApplicationPdf, ApplicationZip, TextPlain}

\* The record the upload handler builds for the file it has written.
FileRecord(id, t) ==
    [id |-> id, name |-> "a.png", size |-> 1, type |-> ImagePng,
     path |-> id \o "." \o "png", uploadedAt |-> t]

FilesOf(file) == UNION {{file[i].files[j] : j \in 1..Len(file[i].files)} : i \in 1..Len(file)}
FileIdArgs(file, none) == {f.id : f \in FilesOf(file)} \cup {none}

\* Nondecreasing clock readings, one per parent record, from `now` on.
Stamps(n) ==
    {st \in [1..n -> Later(now)] : \A i \in 1..n : \A j \in 1..n : i < j => st[i] <= st[j]}

LastStamp(st) == IF Len(st) = 0 THEN now ELSE st[Len(st)]

\* One more call of a behaviour of at most MaxCalls calls.
Count == calls < MaxCalls /\ calls' = calls + 1

\* The two Math.random() draws of one generator call, in the behaviours
\* explored: a draw the generator has not made before.
Draws(kind) == {<<"", Digits(issued[kind])>>}

\* The digit strings one Math.random() draw can give, drawn before or not.
Rand36 == {"", "k"}

\* One more call of the generator of `kind`.
Issue(kind) == issued[kind] < MaxDraws /\ issued' = [issued EXCEPT ![kind] = @ + 1]

---------------------------------------------------------------------------
(* Server processes.  A storage function is synchronous: inside one        *)
(* process it runs from its read to its write with no other request in     *)
(* between.  Two server processes over the same data directory run their   *)
(* storage functions side by side.                                         *)

Procs == {1, 2}

\* No process is inside a storage function.
NoCall == [p \in Procs |-> [pc |-> "idle"]]

---------------------------------------------------------------------------
(* Initial state: ensureDataFiles has created the empty collections. *)

Init ==
    /\ domain \in {"note", "task", "user"}
    /\ users = <<>> /\ procs = NoCall
    /\ notes = <<>> /\ labels = <<>> /\ uploads = {}
    /\ tasks = <<>> /\ taskLabels = <<>> /\ taskUploads = {}
    /\ now = 0
    /\ issued = [k \in Kinds |-> 0]
    /\ calls = 0

Tick ==
    /\ now < MaxTime
    /\ now' = now + 1
    /\ UNCHANGED <<procs, users, domain, noteVars, taskVars, issued, calls>>

---------------------------------------------------------------------------
(* note-storage.ts *)

createLabel(faults) ==
    \E labelData \in LabelData, t2 \in Later(now), d \in Draws("label"),
       e \in Env1(faults) :
        LET id == generateLabelId(d[1], d[2])
            r == CreateLabelIn(labels, labelData, id, now, t2, e, LabelExists, LabelSaveFailed)
        IN  /\ domain = "note" /\ Count /\ Len(labels) < MaxLabels
            /\ labels' = r.file
            /\ IF r.thrown = LabelExists THEN UNCHANGED <<now, issued>>
               ELSE now' = t2 /\ Issue("label")
            /\ UNCHANGED <<procs, users, domain, notes, uploads, taskVars>>

updateLabel(faults) ==
    \E id \in LabelIdArgs, updates \in LabelUpdates, e \in Env1(faults) :
        LET r == UpdateLabelIn(labels, id, updates, now, e, LabelExists, LabelSaveFailed)
        IN  /\ domain = "note" /\ Count
            /\ labels' = r.file
            /\ UNCHANGED <<procs, users, domain, notes, uploads, taskVars, now, issued>>

deleteLabel(faults) ==
    \E id \in LabelIdArgs, e \in Env2(faults) :
        \E stamps \in Stamps(Len(readFile(notes, [e EXCEPT !.readOk = e.read2Ok]))) :
            LET r == DeleteLabelIn(labels, notes, id, stamps, e, LabelSaveFailed, NoteSaveFailed)
            IN  /\ domain = "note" /\ Count
                /\ labels' = r.file
                /\ notes' = r.parentFile
                /\ now' = IF r.ret = <<FALSE>> THEN now ELSE LastStamp(stamps)
                /\ UNCHANGED <<procs, users, domain, uploads, taskVars, issued>>

createNote(faults) ==
    \E noteData \in NoteData, t2 \in Later(now), d \in Draws("note"),
       e \in Env1(faults) :
        LET id == generateNoteId(d[1], d[2])
            r == CreateIn(notes, noteData, id, now, t2, e, NoteSaveFailed)
        IN  /\ domain = "note" /\ Count /\ Len(notes) < MaxNotes
            /\ notes' = r.file
            /\ now' = t2
            /\ Issue("note")
            /\ UNCHANGED <<procs, users, domain, labels, uploads, taskVars>>

updateNote(faults) ==
    \E id \in NoteIdArgs, userId \in Users, updates \in NoteUpdates, e \in Env1(faults) :
        LET r == UpdateIn(notes, id, userId, updates, now, e, NoteSaveFailed)
        IN  /\ domain = "note" /\ Count
            /\ notes' = r.file
            /\ UNCHANGED <<procs, users, domain, labels, uploads, taskVars, now, issued>>

deleteNote(faults) ==
    \E id \in NoteIdArgs, userId \in Users, e \in EnvU(faults, uploads) :
        LET r == DeleteIn(notes, uploads, id, userId, e, NoteSaveFailed)
        IN  /\ domain = "note" /\ Count
            /\ notes' = r.file
            /\ uploads' = r.dir
            /\ UNCHANGED <<procs, users, domain, labels, taskVars, now, issued>>

\* addFileToNote as the upload handler calls it: the handler looks the note
\* up, answers 404 when findNoteByIdAndUserId returns null, and otherwise
\* generates the file id, writes the file into data/uploads and calls
\* addFileToNote with the record of the file.
addFileToNote(faults) ==
    \E noteId \in NoteIdArgs, userId \in Users, d \in Draws("file"),
       e \in Env1(faults) :
        LET id == generateFileId(d[1], d[2])
            f == FileRecord(id, now)
            note == findNoteByIdAndUserId(notes, noteId, userId)
            r == AddFileIn(notes, noteId, userId, f, now, e, NoteSaveFailed)
        IN  /\ domain = "note" /\ Count
            /\ IF note = <<>>
               THEN UNCHANGED <<notes, uploads, issued>>
               ELSE /\ Len(note[1].files) < MaxFiles
                    /\ notes' = r.file
                    /\ uploads' = uploads \cup {f.path}
                    /\ Issue("file")
            /\ UNCHANGED <<procs, users, domain, labels, taskVars, now>>

removeFileFromNote(faults) ==
    \E noteId \in NoteIdArgs, userId \in Users, fileId \in FileIdArgs(notes, "file_none"),
       e \in EnvU(faults, uploads) :
        LET r == RemoveFileIn(notes, uploads, noteId, userId, fileId, now, e, NoteSaveFailed)
        IN  /\ domain = "note" /\ Count
            /\ notes' = r.file
            /\ uploads' = r.dir
            /\ UNCHANGED <<procs, users, domain, labels, taskVars, now, issued>>

(* task-storage.ts *)

createTaskLabel(faults) ==
    \E labelData \in LabelData, t2 \in Later(now), d \in Draws("task_label"),
       e \in Env1(faults) :
        LET id == generateTaskLabelId(d[1], d[2])
            r == CreateLabelIn(taskLabels, labelData, id, now, t2, e, TaskLabelExists, TaskLabelSaveFailed)
        IN  /\ domain = "task" /\ Count /\ Len(taskLabels) < MaxLabels
            /\ taskLabels' = r.file
            /\ IF r.thrown = TaskLabelExists THEN UNCHANGED <<now, issued>>
               ELSE now' = t2 /\ Issue("task_label")
            /\ UNCHANGED <<procs, users, domain, tasks, taskUploads, noteVars>>

updateTaskLabel(faults) ==
    \E id \in TaskLabelIdArgs, updates \in LabelUpdates, e \in Env1(faults) :
        LET r == UpdateLabelIn(taskLabels, id, updates, now, e, TaskLabelExists, TaskLabelSaveFailed)
        IN  /\ domain = "task" /\ Count
            /\ taskLabels' = r.file
            /\ UNCHANGED <<procs, users, domain, tasks, taskUploads, noteVars, now, issued>>

deleteTaskLabel(faults) ==
    \E id \in TaskLabelIdArgs, e \in Env2(faults) :
        \E stamps \in Stamps(Len(readFile(tasks, [e EXCEPT !.readOk = e.read2Ok]))) :
            LET r == DeleteLabelIn(taskLabels, tasks, id, stamps, e, TaskLabelSaveFailed, TaskSaveFailed)
            IN  /\ domain = "task" /\ Count
                /\ taskLabels' = r.file
                /\ tasks' = r.parentFile
                /\ now' = IF r.ret = <<FALSE>> THEN now ELSE LastStamp(stamps)
                /\ UNCHANGED <<procs, users, domain, taskUploads, noteVars, issued>>

createTask(faults) ==
    \E taskData \in TaskData, t2 \in Later(now), d \in Draws("task"),
       e \in Env1(faults) :
        LET id == generateTaskId(d[1], d[2])
            r == CreateIn(tasks, taskData, id, now, t2, e, TaskSaveFailed)
        IN  /\ domain = "task" /\ Count /\ Len(tasks) < MaxTasks
            /\ tasks' = r.file
            /\ now' = t2
            /\ Issue("task")
            /\ UNCHANGED <<procs, users, domain, taskLabels, taskUploads, noteVars>>

updateTask(faults) ==
    \E id \in TaskIdArgs, userId \in Users, updates \in TaskUpdates, e \in Env1(faults) :
        LET r == UpdateIn(tasks, id, userId, updates, now, e, TaskSaveFailed)
        IN  /\ domain = "task" /\ Count
            /\ tasks' = r.file
            /\ UNCHANGED <<procs, users, domain, taskLabels, taskUploads, noteVars, now, issued>>

deleteTask(faults) ==
    \E id \in TaskIdArgs, userId \in Users, e \in EnvU(faults, taskUploads) :
        LET r == DeleteIn(tasks, taskUploads, id, userId, e, TaskSaveFailed)
        IN  /\ domain = "task" /\ Count
            /\ tasks' = r.file
            /\ taskUploads' = r.dir
            /\ UNCHANGED <<procs, users, domain, taskLabels, noteVars, now, issued>>

\* addFileToTask, called as addFileToNote is: by a caller that has found the
\* task and written the file into data/task-uploads.
addFileToTask(faults) ==
    \E taskId \in TaskIdArgs, userId \in Users, d \in Draws("task_file"),
       e \in Env1(faults) :
        LET id == generateTaskFileId(d[1], d[2])
            f == FileRecord(id, now)
            task == Find(tasks, LAMBDA r : r.id = taskId /\ r.userId = userId)
            r == AddFileIn(tasks, taskId, userId, f, now, e, TaskSaveFailed)
        IN  /\ domain = "task" /\ Count
            /\ IF task = <<>>
               THEN UNCHANGED <<tasks, taskUploads, issued>>
               ELSE /\ Len(task[1].files) < MaxFiles
                    /\ tasks' = r.file
                    /\ taskUploads' = taskUploads \cup {f.path}
                    /\ Issue("task_file")
            /\ UNCHANGED <<procs, users, domain, taskLabels, noteVars, now>>

removeFileFromTask(faults) ==
    \E taskId \in TaskIdArgs, userId \in Users, fileId \in FileIdArgs(tasks, "task_file_none"),
       e \in EnvU(faults, taskUploads) :
        LET r == RemoveFileIn(tasks, taskUploads, taskId, userId, fileId, now, e, TaskSaveFailed)
        IN  /\ domain = "task" /\ Count
            /\ tasks' = r.file
            /\ taskUploads' = r.dir
            /\ UNCHANGED <<procs, users, domain, taskLabels, noteVars, now, issued>>

deleteAllDoneTasks(faults) ==
    \E userId \in Users, e \in EnvU(faults, taskUploads) :
        LET r == DeleteAllDone(tasks, taskUploads, userId, e, TaskSaveFailed)
        IN  /\ domain = "task" /\ Count
            /\ tasks' = r.file
            /\ taskUploads' = r.dir
            /\ UNCHANGED <<procs, users, domain, taskLabels, noteVars, now, issued>>

---------------------------------------------------------------------------

(* user-storage.ts and the signup route *)

Emails ==
    {<<"a", "@", "b", ".", "c">>, <<"A", "@", "b", ".", "c">>, <<"d", "@", "b", ".", "c">>}
Passwords == {"secret"}

\* Omit<User, 'id' | 'createdAt' | 'updatedAt'>
UserData == [email : Emails, password : Passwords, name : {"n1"}]

\* SignupRequest bodies: well formed, and one of each kind the validation
\* turns down.
GoodSignups ==
    {[email |-> m, password |-> "secret", confirmPassword |-> "secret", name |-> "n1"] :
        m \in Emails}
SignupBodies ==
    GoodSignups \cup
    {[email |-> <<"a", "@", "b", ".", "c">>, password |-> "secret", name |-> "n1"],
     [email |-> <<>>, password |-> "secret", confirmPassword |-> "secret", name |-> "n1"],
     [email |-> <<"a", "@", "b", ".", "c">>, password |-> "secret",
      confirmPassword |-> "secreT", name |-> "n1"],
     [email |-> <<"a", "@", "b", ".", "c">>, password |-> "short",
      confirmPassword |-> "short", name |-> "n1"],
     [email |-> <<"a", "@", "b">>, password |-> "secret", confirmPassword |-> "secret",
      name |-> "n1"],
     [email |-> <<"a", " ", "@", "b", ".", "c">>, password |-> "secret",
      confirmPassword |-> "secret", name |-> "n1"]}

\* At most one failing read or write in createUser's two reads and one write.
Env2Reads(faults) ==
    IF faults THEN Env1(faults) \cup {[NoFault EXCEPT !.read2Ok = FALSE]} ELSE {NoFault}

createUser(faults) ==
    \E userData \in UserData, t2 \in Later(now), d \in Draws("user"),
       e \in Env2Reads(faults) :
        LET r == CreateUserIn(users, userData, generateUserId(d[1], d[2]), now, t2, e)
        IN  /\ domain = "user" /\ Count /\ Len(users) < MaxUsers
            /\ users' = r.file
            /\ IF r.thrown = UserExists THEN UNCHANGED <<now, issued>>
               ELSE now' = t2 /\ Issue("user")
            /\ UNCHANGED <<procs, domain, noteVars, taskVars>>

POST_signup(faults) ==
    \E body \in SignupBodies, t2 \in Later(now), d \in Draws("user"),
       e0 \in IF faults THEN {NoFault, [NoFault EXCEPT !.readOk = FALSE]} ELSE {NoFault} :
      \E e \in IF e0 = NoFault THEN Env2Reads(faults) ELSE {NoFault} :
        LET h == PostSignup(users, body, generateUserId(d[1], d[2]), now, t2, e0, e)
        IN  /\ domain = "user" /\ Count /\ Len(users) < MaxUsers
            /\ users' = h.file
            /\ IF h.status = 201 \/ h.thrown = UserSaveFailed
               THEN now' = t2 /\ Issue("user")
               ELSE UNCHANGED <<now, issued>>
            /\ UNCHANGED <<procs, domain, noteVars, taskVars>>

UserNext(faults) == createUser(faults) \/ POST_signup(faults)

NoteNext(faults) ==
    \/ createLabel(faults)
    \/ updateLabel(faults)
    \/ deleteLabel(faults)
    \/ createNote(faults)
    \/ updateNote(faults)
    \/ deleteNote(faults)
    \/ addFileToNote(faults)
    \/ removeFileFromNote(faults)

TaskNext(faults) ==
    \/ createTaskLabel(faults)
    \/ updateTaskLabel(faults)
    \/ deleteTaskLabel(faults)
    \/ createTask(faults)
    \/ updateTask(faults)
    \/ deleteTask(faults)
    \/ deleteAllDoneTasks(faults)
    \/ addFileToTask(faults)
    \/ removeFileFromTask(faults)

\* Reads, writes and unlinks succeed.
Next == Tick \/ NoteNext(FALSE) \/ TaskNext(FALSE) \/ UserNext(FALSE)

\* A call may meet one failing read or write, and failing unlinks.
NextFaults == Tick \/ NoteNext(TRUE) \/ TaskNext(TRUE) \/ UserNext(TRUE)

Spec == Init /\ [][Next]_vars

SpecFaults == Init /\ [][NextFaults]_vars

---------------------------------------------------------------------------
(* The bulk delete on task collections of up to MaxBulk tasks: any such   *)
(* collection is one that MaxBulk createTask calls leave.                 *)

\* Values of the status query parameter: missing, or present with a value.
StatusParams == {<<>>, <<"Done">>, <<"done">>, <<"Todo">>, <<"In Progress">>, <<"">>}

\* The i-th task created, with or without an uploaded file.
BulkTask(i, userId, status, withFile) ==
    [id |-> generateTaskId("", Digits(i - 1)), title |-> "t1", content |-> "c1",
     userId |-> userId, status |-> status, dueDate |-> generateDefaultDueDate(0, UTC),
     labels |-> <<>>,
     files |-> IF withFile THEN <<FileRecord(generateTaskFileId("", Digits(i - 1)), 0)>>
               ELSE <<>>,
     createdAt |-> 0, updatedAt |-> 0]

BulkCollections ==
    UNION {{[i \in 1..n |-> BulkTask(i, owners[i], statuses[i], i = 1 /\ firstHasFile)] :
               owners \in [1..n -> Users], statuses \in [1..n -> Statuses],
               firstHasFile \in BOOLEAN} : n \in 0..MaxBulk}

InitBulk ==
    /\ domain = "task"
    /\ users = <<>> /\ procs = NoCall
    /\ notes = <<>> /\ labels = <<>> /\ uploads = {}
    /\ tasks \in BulkCollections
    /\ taskLabels = <<>>
    /\ taskUploads = {f.path : f \in FilesOf(tasks)}
    /\ now = 0
    /\ issued = [k \in Kinds |-> IF k = "task" THEN Len(tasks)
                                 ELSE IF k = "task_file" THEN Cardinality(FilesOf(tasks))
                                 ELSE 0]
    /\ calls = 0

\* DELETE /api/tasks
DELETE_tasks ==
    \E userIdHeader \in Headers, status \in StatusParams :
        LET h == DeleteTasks(tasks, taskUploads, userIdHeader, status, NoFault)
        IN  /\ domain = "task" /\ Count
            /\ tasks' = h.file
            /\ taskUploads' = h.dir
            /\ UNCHANGED <<procs, users, domain, taskLabels, noteVars, now, issued>>

NextBulk == deleteAllDoneTasks(FALSE) \/ DELETE_tasks

SpecBulk == InitBulk /\ [][NextBulk]_vars

---------------------------------------------------------------------------
(* The task routes: POST /api/tasks and PUT /api/tasks/{id} with request  *)
(* bodies of any shape, over a task label collection that is empty or     *)
(* holds one label.                                                       *)

MaxApiCalls == 3

\* A body is a record of the fields it has.  A timestamp in a body is the
\* clock reading it writes.
SuppliedDueDate == 7 * MsPerDay
OptionalFields(name, values) == {Empty} \cup {(name :> v) : v \in values}
BodiesOf(titles, contents, statuses, dueDates, labelIds) ==
    {a @@ b @@ c @@ d @@ l :
        a \in OptionalFields("title", titles),
        b \in OptionalFields("content", contents),
        c \in OptionalFields("status", statuses),
        d \in OptionalFields("dueDate", dueDates),
        l \in OptionalFields("labelIds", labelIds)}

\* The bodies of the requests of the explored behaviours, and the bodies a
\* property of one request ranges over.
TaskBodies ==
    BodiesOf({"", "t1"}, {"c1"}, {"Archived"}, {SuppliedDueDate}, {IdsOf(taskLabels)})
AnyTaskBodies ==
    BodiesOf({"", "t1"}, {"", "c1"}, {"", "Todo", "In Progress", "Done", "Archived"},
             {NoDate, SuppliedDueDate}, SUBSET TaskLabelIdArgs)

CountApi == calls < MaxApiCalls /\ calls' = calls + 1

POST_tasks ==
    \E userIdHeader \in Headers, body \in TaskBodies, d \in Draws("task"),
       t1 \in Later(now), zone \in Zones :
      \E t2 \in Later(t1) :
        LET h == PostTasks(tasks, taskLabels, userIdHeader, body,
                           generateTaskId(d[1], d[2]), now, t1, t2, zone, NoFault)
        IN  /\ CountApi /\ Len(tasks) < MaxTasks
            /\ tasks' = h.file
            /\ IF h.task = <<>> THEN UNCHANGED <<now, issued>>
               ELSE now' = t2 /\ Issue("task")
            /\ UNCHANGED <<procs, users, domain, taskLabels, taskUploads, noteVars>>

PUT_tasks_id ==
    \E userIdHeader \in Headers, id \in TaskIdArgs, body \in TaskBodies :
        LET h == PutTask(tasks, taskLabels, userIdHeader, id, body, now, NoFault)
        IN  /\ CountApi
            /\ tasks' = h.file
            /\ UNCHANGED <<procs, users, domain, taskLabels, taskUploads, noteVars, now, issued>>

\* task-labels.json after no createTaskLabel, and after one.
ApiLabels ==
    {<<>>,
     CreateLabelIn(<<>>, [name |-> <<"a">>, color |-> <<"#", "3", "b", "8", "2", "f", "6">>],
                   generateTaskLabelId("", Digits(0)), 0, 0, NoFault,
                   TaskLabelExists, TaskLabelSaveFailed).file}

InitApi ==
    /\ domain = "task"
    /\ users = <<>> /\ procs = NoCall
    /\ notes = <<>> /\ labels = <<>> /\ uploads = {}
    /\ tasks = <<>> /\ taskUploads = {}
    /\ taskLabels \in ApiLabels
    /\ now = 0
    /\ issued = [k \in Kinds |-> IF k = "task_label" THEN Len(taskLabels) ELSE 0]
    /\ calls = 0

NextApi == Tick \/ POST_tasks \/ PUT_tasks_id

SpecApi == InitApi /\ [][NextApi]_vars

---------------------------------------------------------------------------
(* Properties.  A property of one call is stated over every reachable     *)
(* state and every input of the call, by applying the operation to the    *)
(* persisted collections of that state.                                   *)

\* Two names that are equal when compared case-insensitively.
CasePairs ==
    {<<"a", "A">>, <<"A", "a">>, <<"b", "B">>, <<"B", "b">>,
     <<"c", "C">>, <<"C", "c">>, <<"d", "D">>, <<"D", "d">>}
EqualIgnoringCase(a, b) ==
    /\ Len(a) = Len(b)
    /\ \A i \in 1..Len(a) : a[i] = b[i] \/ <<a[i], b[i]>> \in CasePairs

NamesUnique(file) ==
    \A i \in 1..Len(file) : \A j \in 1..Len(file) :
        i < j => ~EqualIgnoringCase(file[i].name, file[j].name)

(* C1: after any sequence of createLabel, updateLabel and deleteLabel     *)
(* calls (and of their task-label counterparts), with any names, the      *)
(* empty string included, no two labels of one family in the persisted    *)
(* collection have names that are equal case-insensitively.               *)
C1_LabelNamesUnique == NamesUnique(labels) /\ NamesUnique(taskLabels)

\* The next ids the generators return in the behaviours explored.
NextLabelId == generateLabelId("", Digits(issued["label"]))
NextTaskLabelId == generateTaskLabelId("", Digits(issued["task_label"]))

NameOfExisting(file, name) ==
    \E i \in 1..Len(file) : EqualIgnoringCase(file[i].name, name)

(* C2: createLabel (createTaskLabel) called with a name that equals the   *)
(* name of an existing label of its family case-insensitively throws the  *)
(* 'already exists' error and leaves the persisted label collection as it *)
(* was; POST /api/labels and POST /api/tasks/labels answer 409 whenever   *)
(* the create they call throws that error, and leave the collection as    *)
(* it was.                                                                *)
C2_DuplicateCreateRejected ==
    /\ \A labelData \in LabelData, t2 \in Later(now) :
        /\ NameOfExisting(labels, labelData.name) =>
              LET r == CreateLabelIn(labels, labelData, NextLabelId, now, t2, NoFault,
                                     LabelExists, LabelSaveFailed)
              IN  r.thrown = LabelExists /\ r.file = labels
        /\ NameOfExisting(taskLabels, labelData.name) =>
              LET r == CreateLabelIn(taskLabels, labelData, NextTaskLabelId, now, t2,
                                     NoFault, TaskLabelExists, TaskLabelSaveFailed)
              IN  r.thrown = TaskLabelExists /\ r.file = taskLabels
    /\ \A userIdHeader \in Headers, body \in LabelBodies :
        LET h == PostLabels(labels, userIdHeader, body, NextLabelId, now, now, NoFault)
            g == PostTaskLabels(taskLabels, userIdHeader, body, NextTaskLabelId, now, now,
                                NoFault)
        IN  /\ h.thrown = LabelExists => h.status = 409 /\ h.file = labels
            /\ g.thrown = TaskLabelExists => g.status = 409 /\ g.file = taskLabels
            /\ (/\ userIdHeader # NoUser
                /\ Truthy(body, "name") /\ Truthy(body, "color")
                /\ NameOfExisting(labels, trim(body.name))
                /\ IsHexColor(body.color)) => h.status = 409
            /\ (/\ userIdHeader # NoUser
                /\ Truthy(body, "name") /\ Truthy(body, "color")
                /\ NameOfExisting(taskLabels, trim(body.name))) => g.status = 409

\* A label named "a" or "A" exists, createLabel with the other spelling throws,
\* and the POST handler given that spelling with a trailing blank answers 409.
C2_Witness ==
    \E file \in {labels, taskLabels}, labelData \in LabelData :
        /\ \E i \in 1..Len(file) :
              file[i].name # labelData.name /\ EqualIgnoringCase(file[i].name, labelData.name)
        /\ LET r == CreateLabelIn(file, labelData, NextLabelId, now, now, NoFault,
                                  LabelExists, LabelSaveFailed)
               h == PostLabels(file, "u1",
                               [name |-> Append(labelData.name, " "), color |-> labelData.color],
                               NextLabelId, now, now, NoFault)
           IN  r.thrown = LabelExists /\ r.file = file /\ h.status = 409

\* The record refers to the label.
Refers(rec, id) == \E k \in 1..Len(rec.labels) : rec.labels[k].id = id

\* What a delete of label `id` that returned true leaves: parents and labels.
Stripped(before, after, labelsAfter, id) ==
    /\ Len(after) = Len(before)
    /\ \A i \in 1..Len(after) : ~Refers(after[i], id)
    /\ \A i \in 1..Len(before) :
          Refers(before[i], id) =>
              after[i].updatedAt \in Later(now) /\ after[i].updatedAt >= before[i].updatedAt
    /\ \A k \in 1..Len(labelsAfter) : labelsAfter[k].id # id

(* C3: when deleteLabel(id) (deleteTaskLabel(id)) returns true, whatever  *)
(* the number of notes (tasks) that referred to the label, no persisted   *)
(* note (task) has an entry with that id in its labels array, every       *)
(* parent that had one has its updatedAt set to a clock reading of the    *)
(* deletion, not earlier than its previous updatedAt, and the label       *)
(* collection read afterwards has no label with that id.                  *)
C3_DeleteLabelStrips ==
    /\ \A id \in LabelIdArgs, stamps \in Stamps(Len(notes)) :
          LET r == DeleteLabelIn(labels, notes, id, stamps, NoFault, LabelSaveFailed,
                                 NoteSaveFailed)
          IN  r.ret = <<TRUE>> =>
                  /\ Stripped(notes, r.parentFile, r.file, id)
                  /\ findLabelById(r.file, id) = <<>>
    /\ \A id \in TaskLabelIdArgs, stamps \in Stamps(Len(tasks)) :
          LET r == DeleteLabelIn(taskLabels, tasks, id, stamps, NoFault, TaskLabelSaveFailed,
                                 TaskSaveFailed)
          IN  r.ret = <<TRUE>> =>
                  /\ Stripped(tasks, r.parentFile, r.file, id)
                  /\ findLabelById(r.file, id) = <<>>

\* Two parents refer to a label, one of them stamped before the present clock
\* reading, and the delete of the label returns true.
C3_Witness ==
    \E fs \in {<<labels, notes>>, <<taskLabels, tasks>>} :
        \E id \in IdsOf(fs[1]), stamps \in Stamps(Len(fs[2])) :
            /\ Len(fs[2]) = 2
            /\ Refers(fs[2][1], id) /\ Refers(fs[2][2], id)
            /\ fs[2][1].updatedAt < now
            /\ DeleteLabelIn(fs[1], fs[2], id, stamps, NoFault, LabelSaveFailed,
                             NoteSaveFailed).ret = <<TRUE>>

\* No record has this id under this user: the record is another user's, or
\* there is none.
NotOwnedBy(file, id, userId) ==
    \A i \in 1..Len(file) : file[i].id = id => file[i].userId # userId

NextFileId == generateFileId("", Digits(issued["file"]))
NextTaskFileId == generateTaskFileId("", Digits(issued["task_file"]))

\* Every call scoped by (id, userId) answers "not found" and changes nothing,
\* whether or not its read of the collection succeeds.
Rejected(file, dir, id, userId, updates, fileRecord, fileIds, failure) ==
    /\ findNoteByIdAndUserId(file, id, userId) = <<>>
    /\ \A u \in updates, e \in Env1(TRUE) :
          UpdateIn(file, id, userId, u, now, e, failure)
              = [file |-> file, thrown |-> "", ret |-> <<>>]
    /\ \A e \in Env1(TRUE) :
          AddFileIn(file, id, userId, fileRecord, now, e, failure)
              = [file |-> file, thrown |-> "", ret |-> <<>>]
    /\ \A fileId \in fileIds, e \in EnvU(TRUE, dir) :
          RemoveFileIn(file, dir, id, userId, fileId, now, e, failure)
              = [file |-> file, dir |-> dir, thrown |-> "", ret |-> <<>>]
    /\ \A e \in EnvU(TRUE, dir) :
          DeleteIn(file, dir, id, userId, e, failure)
              = [file |-> file, dir |-> dir, thrown |-> "", ret |-> <<FALSE>>]

(* C4: for a note or task of user A and a userId B other than A, and for  *)
(* an id of no record: findNoteByIdAndUserId / findTaskByIdAndUserId      *)
(* return null, updateNote / updateTask, addFileToNote / addFileToTask    *)
(* and removeFileFromNote / removeFileFromTask return null, deleteNote /  *)
(* deleteTask return false, none of them throws, the persisted collection *)
(* and the upload directory are as before, and findNoteById /             *)
(* findTaskById with the id of a record returns that record.              *)
C4_ForeignIdsRejected ==
    /\ \A id \in NoteIdArgs, userId \in Users :
          /\ NotOwnedBy(notes, id, userId) =>
                Rejected(notes, uploads, id, userId, NoteUpdates,
                         FileRecord(NextFileId, now), FileIdArgs(notes, "file_none"),
                         NoteSaveFailed)
          /\ \A i \in 1..Len(notes) :
                (notes[i].id = id /\ \A j \in 1..(i - 1) : notes[j].id # id)
                    => findNoteById(notes, id) = <<notes[i]>>
    /\ \A id \in TaskIdArgs, userId \in Users :
          /\ NotOwnedBy(tasks, id, userId) =>
                Rejected(tasks, taskUploads, id, userId, TaskUpdates,
                         FileRecord(NextTaskFileId, now), FileIdArgs(tasks, "task_file_none"),
                         TaskSaveFailed)
          /\ \A i \in 1..Len(tasks) :
                (tasks[i].id = id /\ \A j \in 1..(i - 1) : tasks[j].id # id)
                    => findNoteById(tasks, id) = <<tasks[i]>>

\* A record with an attached file exists under one user; under the other
\* user its id finds nothing, its update returns null and its delete false,
\* while the lookup by id alone returns it.
C4_Witness ==
    \E fs \in {<<notes, uploads>>, <<tasks, taskUploads>>} :
        \E i \in 1..Len(fs[1]), userId \in Users :
            /\ fs[1][i].userId # userId
            /\ fs[1][i].files # <<>>
            /\ findNoteById(fs[1], fs[1][i].id) = <<fs[1][i]>>
            /\ findNoteByIdAndUserId(fs[1], fs[1][i].id, userId) = <<>>
            /\ UpdateIn(fs[1], fs[1][i].id, userId, ("title" :> "t2"), now, NoFault,
                        NoteSaveFailed).ret = <<>>
            /\ DeleteIn(fs[1], fs[2], fs[1][i].id, userId, NoFault, NoteSaveFailed).ret
                   = <<FALSE>>

\* The notes (tasks) of one user, in their order in the file.
OwnedBy(file, userId) == findNotesByUserId(file, userId)

\* The calls a caller makes with its own userId leave the records of the
\* user `owner` as they are.
ScopedCallsKeep(file, dir, caller, owner, idArgs, data, newId, updates, fileRecord,
                fileIds, failure) ==
    /\ \A d \in data, t2 \in Later(now) :
          d.userId = caller =>
              OwnedBy(CreateIn(file, d, newId, now, t2, NoFault, failure).file, owner)
                  = OwnedBy(file, owner)
    /\ \A id \in idArgs :
          /\ \A u \in updates :
                OwnedBy(UpdateIn(file, id, caller, u, now, NoFault, failure).file, owner)
                    = OwnedBy(file, owner)
          /\ OwnedBy(AddFileIn(file, id, caller, fileRecord, now, NoFault, failure).file, owner)
                = OwnedBy(file, owner)
          /\ \A fileId \in fileIds :
                OwnedBy(RemoveFileIn(file, dir, id, caller, fileId, now, NoFault,
                                     failure).file, owner)
                    = OwnedBy(file, owner)
          /\ OwnedBy(DeleteIn(file, dir, id, caller, NoFault, failure).file, owner)
                = OwnedBy(file, owner)

NextNoteId == generateNoteId("", Digits(issued["note"]))
NextTaskId == generateTaskId("", Digits(issued["task"]))

NoteCallsKeep(caller, owner) ==
    ScopedCallsKeep(notes, uploads, caller, owner, NoteIdArgs, NoteData, NextNoteId,
                    NoteUpdates, FileRecord(NextFileId, now),
                    FileIdArgs(notes, "file_none"), NoteSaveFailed)

TaskCallsKeep(caller, owner) ==
    /\ ScopedCallsKeep(tasks, taskUploads, caller, owner, TaskIdArgs, TaskData, NextTaskId,
                       TaskUpdates, FileRecord(NextTaskFileId, now),
                       FileIdArgs(tasks, "task_file_none"), TaskSaveFailed)
    /\ OwnedBy(DeleteAllDone(tasks, taskUploads, caller, NoFault, TaskSaveFailed).file, owner)
          = OwnedBy(tasks, owner)

ButLabelsAndStamp(rec) == [f \in DOMAIN rec \ {"labels", "updatedAt"} |-> rec[f]]

\* The delete of a label changes, in the records of `owner`, the labels array
\* (the entries of that label go) and updatedAt (a clock reading of the delete).
OnlyUnlabels(before, after, id, owner) ==
    LET old == OwnedBy(before, owner)
        new == OwnedBy(after, owner)
    IN  /\ Len(new) = Len(old)
        /\ \A i \in 1..Len(old) :
              /\ ButLabelsAndStamp(new[i]) = ButLabelsAndStamp(old[i])
              /\ new[i].labels = Filter(old[i].labels, LAMBDA l : l.id # id)
              /\ new[i].updatedAt \in Later(now) \cup {old[i].updatedAt}

C6_UpdateKeepsIdentity ==
    /\ \A i \in 1..Len(notes), updates \in NoteUpdates, e \in Env1(TRUE) :
          LET r == UpdateIn(notes, notes[i].id, notes[i].userId, updates, now, e,
                            NoteSaveFailed)
              new == r.file[i]
          IN  r.thrown = "" =>
                  /\ new.id = notes[i].id
                  /\ new.userId = notes[i].userId
                  /\ new.createdAt = notes[i].createdAt
                  /\ new.updatedAt >= notes[i].updatedAt
    /\ \A i \in 1..Len(tasks), updates \in TaskUpdates, e \in Env1(TRUE) :
          LET r == UpdateIn(tasks, tasks[i].id, tasks[i].userId, updates, now, e,
                            TaskSaveFailed)
              new == r.file[i]
          IN  r.thrown = "" =>
                  /\ new.id = tasks[i].id
                  /\ new.userId = tasks[i].userId
                  /\ new.createdAt = tasks[i].createdAt
                  /\ new.updatedAt >= tasks[i].updatedAt

\* A record stamped at the present clock reading, later than 0, is updated by
\* its owner with an update that carries updatedAt: 0, and the record returned
\* has the clock reading.
C6_Witness ==
    \E file \in {notes, tasks} :
        \E i \in 1..Len(file) :
            /\ file[i].updatedAt > 0
            /\ LET r == UpdateIn(file, file[i].id, file[i].userId, ("updatedAt" :> 0), now,
                                 NoFault, NoteSaveFailed)
               IN  r.ret # <<>> /\ r.ret[1].updatedAt = now /\ r.file[i] = r.ret[1]

\* What create returned is what the lookup by the returned id finds, it has
\* the supplied fields, and its two timestamps are equal.
CreatedAsGiven(r, data) ==
    r.ret # <<>> =>
        /\ findNoteById(r.file, r.ret[1].id) = r.ret
        /\ \A f \in DOMAIN data : r.ret[1][f] = data[f]
        /\ {"createdAt", "updatedAt"} \subseteq DOMAIN r.ret[1]
        /\ r.ret[1].createdAt = r.ret[1].updatedAt

(* C7: for every input, createNote (createTask, createLabel) followed by  *)
(* findNoteById (findTaskById, findLabelById) with the returned id yields *)
(* the record create returned: the supplied fields are as given, and      *)
(* createdAt and updatedAt are both set and equal to each other.          *)
C7_CreateThenFind ==
    \A t2 \in Later(now) :
        /\ \A noteData \in NoteData :
              CreatedAsGiven(CreateIn(notes, noteData, NextNoteId, now, t2, NoFault,
                                      NoteSaveFailed), noteData)
        /\ \A taskData \in TaskData :
              CreatedAsGiven(CreateIn(tasks, taskData, NextTaskId, now, t2, NoFault,
                                      TaskSaveFailed), taskData)
        /\ \A labelData \in LabelData :
              CreatedAsGiven(CreateLabelIn(labels, labelData, NextLabelId, now, t2, NoFault,
                                           LabelExists, LabelSaveFailed), labelData)

\* The ids a generator has returned so far in the behaviours explored.
IssuedNoteIds == {generateNoteId("", Digits(k)) : k \in 0..(issued["note"] - 1)}
IssuedLabelIds == {generateLabelId("", Digits(k)) : k \in 0..(issued["label"] - 1)}
IssuedTaskIds == {generateTaskId("", Digits(k)) : k \in 0..(issued["task"] - 1)}
IssuedTaskLabelIds ==
    {generateTaskLabelId("", Digits(k)) : k \in 0..(issued["task_label"] - 1)}

\* The operations on stored records leave every id where it is: a record
\* keeps its id.
KeepsIds(file, dir, idArgs, updates, fileRecord, fileIds, failure) ==
    \A id \in idArgs, userId \in Users :
        /\ \A u \in updates :
              LET r == UpdateIn(file, id, userId, u, now, NoFault, failure)
              IN  Len(r.file) = Len(file) /\ \A i \in 1..Len(file) : r.file[i].id = file[i].id
        /\ LET r == AddFileIn(file, id, userId, fileRecord, now, NoFault, failure)
           IN  Len(r.file) = Len(file) /\ \A i \in 1..Len(file) : r.file[i].id = file[i].id
        /\ \A fileId \in fileIds :
              LET r == RemoveFileIn(file, dir, id, userId, fileId, now, NoFault, failure)
              IN  Len(r.file) = Len(file) /\ \A i \in 1..Len(file) : r.file[i].id = file[i].id
        /\ LET r == DeleteIn(file, dir, id, userId, NoFault, failure)
           IN  \A i \in 1..Len(r.file) :
                   \E j \in 1..Len(file) : r.file[i] = file[j]

LabelKeepsIds(file, parentFile, idArgs, failure, parentFailure) ==
    \A id \in idArgs :
        /\ \A u \in LabelUpdates :
              LET r == UpdateLabelIn(file, id, u, now, NoFault, LabelExists, failure)
              IN  Len(r.file) = Len(file) /\ \A i \in 1..Len(file) : r.file[i].id = file[i].id
        /\ \A stamps \in Stamps(Len(parentFile)) :
              LET r == DeleteLabelIn(file, parentFile, id, stamps, NoFault, failure,
                                     parentFailure)
              IN  /\ Len(r.parentFile) = Len(parentFile)
                  /\ \A i \in 1..Len(parentFile) : r.parentFile[i].id = parentFile[i].id
                  /\ \A i \in 1..Len(r.file) : \E j \in 1..Len(file) : r.file[i] = file[j]

StoredIdsKept ==
    /\ KeepsIds(notes, uploads, NoteIdArgs, NoteUpdates, FileRecord(NextFileId, now),
                FileIdArgs(notes, "file_none"), NoteSaveFailed)
    /\ KeepsIds(tasks, taskUploads, TaskIdArgs, TaskUpdates, FileRecord(NextTaskFileId, now),
                FileIdArgs(tasks, "task_file_none"), TaskSaveFailed)
    /\ LabelKeepsIds(labels, notes, LabelIdArgs, LabelSaveFailed, NoteSaveFailed)
    /\ LabelKeepsIds(taskLabels, tasks, TaskLabelIdArgs, TaskLabelSaveFailed, TaskSaveFailed)

SomeLabel == [name |-> <<"a">>, color |-> <<"#", "3", "b", "8", "2", "f", "6">>]
SomeNote ==
    [title |-> "t1", content |-> "c1", userId |-> "u1", labels |-> <<>>, files |-> <<>>]
SomeTask ==
    [title |-> "t1", content |-> "c1", userId |-> "u1", status |-> "Todo",
     dueDate |-> generateDefaultDueDate(now, UTC), labels |-> <<>>, files |-> <<>>]

\* The record a create stores, for one pair of draws.
CreatedNote(r1, r2) ==
    CreateIn(notes, SomeNote, generateNoteId(r1, r2), now, now, NoFault,
             NoteSaveFailed)
CreatedTask(r1, r2) ==
    CreateIn(tasks, SomeTask, generateTaskId(r1, r2), now, now, NoFault,
             TaskSaveFailed)
CreatedLabel(r1, r2) ==
    CreateLabelIn(<<>>, SomeLabel, generateLabelId(r1, r2), now, now,
                  NoFault, LabelExists, LabelSaveFailed)
CreatedTaskLabel(r1, r2) ==
    CreateLabelIn(<<>>, SomeLabel, generateTaskLabelId(r1, r2), now, now,
                  NoFault, TaskLabelExists, TaskLabelSaveFailed)

NoEntryFor(file, gone) == \A f \in FilesOf(file) : f.path \notin gone

(* C9: whenever deleteNote, deleteTask, deleteAllDoneTasks,               *)
(* removeFileFromNote or removeFileFromTask has removed an attached file  *)
(* from disk, the persisted collection holds no metadata entry of that    *)
(* file when the operation ends, whether it returns or throws (a failing  *)
(* write of the collection included).                                     *)
C9_NoEntryForDeletedFile ==
    /\ \A id \in NoteIdArgs, userId \in Users, e \in EnvU(TRUE, uploads) :
          /\ LET r == DeleteIn(notes, uploads, id, userId, e, NoteSaveFailed)
             IN  NoEntryFor(r.file, uploads \ r.dir)
          /\ \A fileId \in FileIdArgs(notes, "file_none") :
                LET r == RemoveFileIn(notes, uploads, id, userId, fileId, now, e,
                                      NoteSaveFailed)
                IN  NoEntryFor(r.file, uploads \ r.dir)
    /\ \A id \in TaskIdArgs, userId \in Users, e \in EnvU(TRUE, taskUploads) :
          /\ LET r == DeleteIn(tasks, taskUploads, id, userId, e, TaskSaveFailed)
             IN  NoEntryFor(r.file, taskUploads \ r.dir)
          /\ \A fileId \in FileIdArgs(tasks, "task_file_none") :
                LET r == RemoveFileIn(tasks, taskUploads, id, userId, fileId, now, e,
                                      TaskSaveFailed)
                IN  NoEntryFor(r.file, taskUploads \ r.dir)
    /\ \A userId \in Users, e \in EnvU(TRUE, taskUploads) :
          LET r == DeleteAllDone(tasks, taskUploads, userId, e, TaskSaveFailed)
          IN  NoEntryFor(r.file, taskUploads \ r.dir)

\* The delete of the record at index i by its owner, when the unlink of the
\* files of `fails` throws: the record goes, true is returned, and every
\* other file of the record is off the disk.
DeletedDespite(file, dir, i, fails, failure) ==
    LET rec == file[i]
        r == DeleteIn(file, dir, rec.id, rec.userId, [NoFault EXCEPT !.unlinkFails = fails],
                      failure)
    IN  /\ r.ret = <<TRUE>> /\ r.thrown = ""
        /\ Len(r.file) = Len(file) - 1
        /\ \A j \in 1..Len(r.file) : r.file[j].id # rec.id
        /\ \A k \in 1..Len(rec.files) :
              IF rec.files[k].path \in fails
              THEN rec.files[k].path \in r.dir
              ELSE rec.files[k].path \notin r.dir

(* C10: deleteNote (deleteTask) of an owned record with K attached files  *)
(* removes the record from the persisted collection and returns true for  *)
(* every outcome of the K disk deletions: a deletion that fails is        *)
(* skipped, the files after it are still deleted, and the record is       *)
(* removed.                                                               *)
C10_DeleteDespiteUnlinkFailures ==
    /\ \A i \in 1..Len(notes), fails \in SUBSET uploads :
          DeletedDespite(notes, uploads, i, fails, NoteSaveFailed)
    /\ \A i \in 1..Len(tasks), fails \in SUBSET taskUploads :
          DeletedDespite(tasks, taskUploads, i, fails, TaskSaveFailed)

\* A record has two files on disk; the unlink of the first throws, and the
\* delete of the record returns true, removes the record and the second file,
\* and leaves the first file on disk.
C10_Witness ==
    \E fs \in {<<notes, uploads>>, <<tasks, taskUploads>>} :
        \E i \in 1..Len(fs[1]) :
            /\ Len(fs[1][i].files) = 2
            /\ {fs[1][i].files[1].path, fs[1][i].files[2].path} \subseteq fs[2]
            /\ LET rec == fs[1][i]
                   r == DeleteIn(fs[1], fs[2], rec.id, rec.userId,
                                 [NoFault EXCEPT !.unlinkFails = {rec.files[1].path}],
                                 NoteSaveFailed)
               IN  /\ r.ret = <<TRUE>>
                   /\ findNoteById(r.file, rec.id) = <<>>
                   /\ rec.files[1].path \in r.dir
                   /\ rec.files[2].path \notin r.dir

\* The k-th smallest index of a set of indices.
Kth(S, k) == CHOOSE i \in S : Cardinality({j \in S : j < i}) = k - 1

\* `after` is `before` without the records at the indices of `gone`, the
\* others unchanged and in their order.
Without(before, after, gone) ==
    LET kept == (1..Len(before)) \ gone
    IN  /\ Len(after) = Cardinality(kept)
        /\ \A k \in 1..Len(after) : after[k] = before[Kth(kept, k)]

(* C11: for every task collection and user U, deleteAllDoneTasks(U)       *)
(* removes exactly the tasks with userId = U and status = Done, returns   *)
(* the number of tasks it removed, and leaves every other task (the Todo  *)
(* and In Progress tasks of U, and every task of the other users, Done    *)
(* ones included) unchanged and in the same relative order.               *)
C11_BulkDeleteExact ==
    \A userId \in Users :
        LET r == DeleteAllDone(tasks, taskUploads, userId, NoFault, TaskSaveFailed)
            gone == {i \in 1..Len(tasks) :
                        tasks[i].userId = userId /\ tasks[i].status = "Done"}
        IN  /\ r.thrown = ""
            /\ r.ret = <<Cardinality(gone)>>
            /\ Without(tasks, r.file, gone)

\* u1 has tasks Todo, In Progress, Done, Done: the bulk delete for u1 returns
\* 2 and leaves the first two tasks; and with a Done task of u2 between two
\* tasks that stay, the bulk delete for u1 leaves that task where it is.
C11_Witness ==
    \/ /\ Len(tasks) = 4
       /\ \A i \in 1..4 : tasks[i].userId = "u1"
       /\ <<tasks[1].status, tasks[2].status, tasks[3].status, tasks[4].status>>
              = <<"Todo", "In Progress", "Done", "Done">>
       /\ LET r == DeleteAllDone(tasks, taskUploads, "u1", NoFault, TaskSaveFailed)
          IN  r.ret = <<2>> /\ r.file = <<tasks[1], tasks[2]>>
    \/ /\ Len(tasks) = 4
       /\ <<tasks[1].userId, tasks[2].userId, tasks[3].userId, tasks[4].userId>>
              = <<"u1", "u1", "u2", "u1">>
       /\ <<tasks[1].status, tasks[2].status, tasks[3].status, tasks[4].status>>
              = <<"Todo", "Done", "Done", "In Progress">>
       /\ LET r == DeleteAllDone(tasks, taskUploads, "u1", NoFault, TaskSaveFailed)
          IN  r.ret = <<1>> /\ r.file = <<tasks[1], tasks[3], tasks[4]>>

(* C12: DELETE /api/tasks deletes nothing unless the status query         *)
(* parameter is exactly 'Done': for any other value and for a missing     *)
(* parameter the handler answers 400 to an authenticated caller (401 to   *)
(* a caller without x-user-id) and the task collection and the task       *)
(* upload directory are as before.                                        *)
C12_BulkDeleteOnlyDone ==
    \A userIdHeader \in Headers, status \in StatusParams \ {<<"Done">>} :
        LET h == DeleteTasks(tasks, taskUploads, userIdHeader, status, NoFault)
        IN  /\ h.file = tasks
            /\ h.dir = taskUploads
            /\ h.deletedCount = <<>>
            /\ h.status = IF userIdHeader = NoUser THEN 401 ELSE 400

\* u1 has a Done task with an uploaded file: the request with status=done and
\* the request without the parameter answer 400 and delete nothing, the
\* request with status=Done answers 200 and deletes the task.
C12_Witness ==
    /\ \E i \in 1..Len(tasks) :
          tasks[i].userId = "u1" /\ tasks[i].status = "Done" /\ tasks[i].files # <<>>
    /\ DeleteTasks(tasks, taskUploads, "u1", <<"done">>, NoFault).status = 400
    /\ DeleteTasks(tasks, taskUploads, "u1", <<>>, NoFault).status = 400
    /\ DeleteTasks(tasks, taskUploads, "u1", <<"done">>, NoFault).file = tasks
    /\ LET h == DeleteTasks(tasks, taskUploads, "u1", <<"Done">>, NoFault)
       IN  h.status = 200 /\ h.file # tasks /\ h.dir # taskUploads

(* C13: after any sequence of POST /api/tasks and PUT /api/tasks/{id}     *)
(* requests with request bodies of any shape, every persisted task has a  *)
(* status that is one of Todo, In Progress, Done.                         *)
C13_StatusValid == \A i \in 1..Len(tasks) : tasks[i].status \in Statuses

\* The environments of a call whose write of the collection fails.
WriteFails == {[NoFault EXCEPT !.writeOk = FALSE, !.cut = c] : c \in BOOLEAN}

\* A failing write in the create, the update and the delete of one
\* collection raises `failure` and leaves the collection as it was.
FailedWriteKeeps(file, dir, idArgs, data, failure) ==
    \A e \in WriteFails :
        /\ LET r == CreateIn(file, data, "new", now, now, e, failure)
           IN  r.thrown = failure /\ r.ret = <<>> /\ r.file = file
        /\ \A id \in idArgs, userId \in Users :
              /\ LET r == UpdateIn(file, id, userId, ("title" :> "t2"), now, e, failure)
                 IN  UpdateIn(file, id, userId, ("title" :> "t2"), now, NoFault, failure).ret # <<>>
                        => r.thrown = failure /\ r.ret = <<>> /\ r.file = file
              /\ LET r == DeleteIn(file, dir, id, userId, e, failure)
                 IN  DeleteIn(file, dir, id, userId, NoFault, failure).ret = <<TRUE>>
                        => r.thrown = failure /\ r.ret = <<>> /\ r.file = file

(* C14: when the write of the collection file fails during a create, an   *)
(* update or a delete, the operation raises the 'Failed to save ... data' *)
(* error to its caller, the persisted collection is the same as before    *)
(* the call, and the handler (POST /api/notes, POST /api/tasks) answers   *)
(* 500.                                                                   *)
C14_FailedWriteKeepsCollection ==
    /\ FailedWriteKeeps(notes, uploads, NoteIdArgs, SomeNote, NoteSaveFailed)
    /\ FailedWriteKeeps(tasks, taskUploads, TaskIdArgs, SomeTask, TaskSaveFailed)
    /\ \A e \in WriteFails, userIdHeader \in Users :
          /\ LET h == PostNotes(notes, labels, userIdHeader,
                                [title |-> "t1", content |-> "c1"], "new", now, now, e)
             IN  h.status = 500 /\ h.file = notes
          /\ LET h == PostTasks(tasks, taskLabels, userIdHeader,
                                [title |-> "t1", content |-> "c1"], "new", now, now, now,
                                UTC, e)
             IN  h.status = 500 /\ h.file = tasks

\* The environment of a find whose read of the collection file throws.
ReadFails == [NoFault EXCEPT !.readOk = FALSE]

\* The finds of the note repository or the task repository answer [] and
\* null on what a failing read returns.
FindsNothing(file, idArgs) ==
    LET rs == readFile(file, ReadFails)
    IN  /\ rs = <<>>
        /\ \A id \in idArgs, userId \in Users :
              /\ findNoteById(rs, id) = <<>>
              /\ findNoteByIdAndUserId(rs, id, userId) = <<>>
              /\ findNotesByUserId(rs, userId) = <<>>
              /\ \A status \in Statuses : findTasksByUserIdAndStatus(rs, userId, status) = <<>>

\* The same for the finds of a label repository.
FindsNoLabel(file, idArgs) ==
    LET ls == readFile(file, ReadFails)
    IN  /\ ls = <<>>
        /\ \A id \in idArgs : findLabelById(ls, id) = <<>>
        /\ \A ids \in SUBSET idArgs : findLabelsByIds(ls, ids) = <<>>

FoundUnlessReadFails(file) ==
    /\ file # <<>>
    /\ findNoteById(readFile(file, NoFault), file[1].id) = <<file[1]>>
    /\ findNoteById(readFile(file, ReadFails), file[1].id) = <<>>

EmailsAnyCase ==
    Emails \cup {<<"a", "@", "B", ".", "c">>, <<"A", "@", "B", ".", "C">>,
                 <<"D", "@", "b", ".", "c">>}

EmailOfExisting(email) ==
    \E i \in 1..Len(users) : EqualIgnoringCase(users[i].email, email)

\* `after` holds every record of users.json, unchanged and at its place.
KeepsUsers(after) ==
    Len(after) >= Len(users) /\ \A i \in 1..Len(users) : after[i] = users[i]

SignupOf(email) ==
    [email |-> email, password |-> "secret", confirmPassword |-> "secret", name |-> "n1"]

EmbeddedLabels(file, id) == findNoteById(file, id)[1].labels

\* The records of both collections whose labels arrays differ.
Relabelled(before, after) ==
    {id \in IdsOf(before) \cap IdsOf(after) :
        EmbeddedLabels(before, id) # EmbeddedLabels(after, id)}

\* `after` is `before` after an update of the record `id` with a labels array.
ByUpdateWithLabels(before, after, id, updateSet, failure) ==
    \E userId \in Users, updates \in updateSet :
        /\ "labels" \in DOMAIN updates
        /\ after = UpdateIn(before, id, userId, updates, now, NoFault, failure).file

\* The record `id` has lost the copies of a label that left the label
\* collection, and no other copy.
ByLabelDelete(before, after, id, labelsBefore, labelsAfter) ==
    \E lid \in IdsOf(labelsBefore) \ IdsOf(labelsAfter) :
        EmbeddedLabels(after, id) = Filter(EmbeddedLabels(before, id), LAMBDA l : l.id # lid)

\* updateLabel and updateTaskLabel write no parent collection.
LabelUpdateKeepsParents ==
    (updateLabel(FALSE) \/ updateTaskLabel(FALSE)) => notes' = notes /\ tasks' = tasks

(* C17 as stated: updateLabel (updateTaskLabel) leaves the notes (tasks)  *)
(* collection unchanged, and the labels array of a persisted note (task)  *)
(* changes in a step only when the step is an update of that note (task)  *)
(* with a labels list.                                                    *)
C17_CopiesChangeOnlyOnUpdate ==
    [][/\ LabelUpdateKeepsParents
       /\ \A id \in Relabelled(notes, notes') :
             ByUpdateWithLabels(notes, notes', id, NoteUpdates, NoteSaveFailed)
       /\ \A id \in Relabelled(tasks, tasks') :
             ByUpdateWithLabels(tasks, tasks', id, TaskUpdates, TaskSaveFailed)]_vars

\* PUT /api/notes/{id} and PUT /api/tasks/{id} with labelIds embed the labels
\* as the label collection holds them now; without labelIds they keep the
\* embedded copies.
PutEmbedsCurrent ==
    /\ \A id \in IdsOf(notes), userId \in Users :
          LET own == findNoteByIdAndUserId(notes, id, userId) # <<>>
              kept == PutNote(notes, labels, userId, id, [title |-> "t2"], now, NoFault)
          IN  /\ own => kept.status = 200 /\ kept.note[1].labels = EmbeddedLabels(notes, id)
              /\ \A ids \in SUBSET LabelIdArgs :
                    LET h == PutNote(notes, labels, userId, id, [labelIds |-> ids], now,
                                     NoFault)
                    IN  own => /\ h.status = 200
                               /\ \A k \in 1..Len(h.note[1].labels) :
                                     <<h.note[1].labels[k]>>
                                        = findLabelById(labels, h.note[1].labels[k].id)
                               /\ {h.note[1].labels[k].id : k \in 1..Len(h.note[1].labels)}
                                     = ids \cap IdsOf(labels)
    /\ \A id \in IdsOf(tasks), userId \in Users :
          LET own == findNoteByIdAndUserId(tasks, id, userId) # <<>>
              kept == PutTask(tasks, taskLabels, userId, id, [title |-> "t2"], now, NoFault)
          IN  /\ own => kept.status = 200 /\ kept.task[1].labels = EmbeddedLabels(tasks, id)
              /\ \A ids \in SUBSET TaskLabelIdArgs :
                    LET h == PutTask(tasks, taskLabels, userId, id, [labelIds |-> ids], now,
                                     NoFault)
                    IN  own => /\ h.status = 200
                               /\ \A k \in 1..Len(h.task[1].labels) :
                                     <<h.task[1].labels[k]>>
                                        = findLabelById(taskLabels, h.task[1].labels[k].id)
                               /\ {h.task[1].labels[k].id : k \in 1..Len(h.task[1].labels)}
                                     = ids \cap IdsOf(taskLabels)

(* C17 amended: updateLabel (updateTaskLabel) leaves the notes (tasks)    *)
(* collection unchanged; the labels array of a persisted note (task)      *)
(* changes in a step only when the step is an update of that note (task)  *)
(* with a labels list, or the delete of a label, which removes the copies *)
(* of that label and no other; an update through PUT with labelIds        *)
(* embeds the labels as they are stored now.                              *)
C17_CopiesKeptUntilResaved ==
    /\ []PutEmbedsCurrent
    /\ [][/\ LabelUpdateKeepsParents
          /\ \A id \in Relabelled(notes, notes') :
                \/ ByUpdateWithLabels(notes, notes', id, NoteUpdates, NoteSaveFailed)
                \/ ByLabelDelete(notes, notes', id, labels, labels')
          /\ \A id \in Relabelled(tasks, tasks') :
                \/ ByUpdateWithLabels(tasks, tasks', id, TaskUpdates, TaskSaveFailed)
                \/ ByLabelDelete(tasks, tasks', id, taskLabels, taskLabels')]_vars

\* A note (task) embeds a copy whose name is no longer the name of its label;
\* PUT with the label's id replaces the copy by the label as it is now.
StaleCopyRefreshed(file, labelFile, failure) ==
    \E i \in 1..Len(file) :
        /\ Len(file[i].labels) = 1
        /\ LET copy == file[i].labels[1]
               current == findLabelById(labelFile, copy.id)
               r == UpdateIn(file, file[i].id, file[i].userId,
                             ("labels" :> findLabelsByIds(labelFile, {copy.id})), now,
                             NoFault, failure)
           IN  /\ current # <<>>
               /\ current[1].name # copy.name
               /\ r.ret[1].labels = current

C17_Witness ==
    \/ /\ StaleCopyRefreshed(notes, labels, NoteSaveFailed)
       /\ \E i \in 1..Len(notes) :
             PutNote(notes, labels, notes[i].userId, notes[i].id,
                     [labelIds |-> IdsOf(labels)], now, NoFault).note[1].labels = labels
    \/ /\ StaleCopyRefreshed(tasks, taskLabels, TaskSaveFailed)
       /\ \E i \in 1..Len(tasks) :
             PutTask(tasks, taskLabels, tasks[i].userId, tasks[i].id,
                     [labelIds |-> IdsOf(taskLabels)], now, NoFault).task[1].labels = taskLabels

\* The delete of the stored label `id` when one of its two writes fails: a
\* failing label write raises after the parents were persisted without the
\* label, which stays in the label collection; a failing parent write raises
\* with both collections as they were.
ParentWrittenFirst(file, parentFile, id, failure, parentFailure, cuts) ==
    \A stamps \in Stamps(Len(parentFile)), c \in cuts :
        /\ LET r == DeleteLabelIn(file, parentFile, id, stamps,
                                  [NoFault EXCEPT !.write2Ok = FALSE, !.cut = c],
                                  failure, parentFailure)
           IN  /\ r.thrown = failure /\ r.ret = <<>>
               /\ findLabelById(r.file, id) # <<>>
               /\ Len(r.parentFile) = Len(parentFile)
               /\ \A i \in 1..Len(r.parentFile) : ~Refers(r.parentFile[i], id)
        /\ LET r == DeleteLabelIn(file, parentFile, id, stamps,
                                  [NoFault EXCEPT !.writeOk = FALSE, !.cut = c],
                                  failure, parentFailure)
           IN  /\ r.thrown = parentFailure /\ r.ret = <<>>
               /\ r.file = file /\ r.parentFile = parentFile

(* C18: in deleteLabel (deleteTaskLabel) the parent collection is         *)
(* persisted before the label collection: if the parent write succeeds    *)
(* and the label write fails, the operation raises, the label is still in *)
(* the label collection and no note (task) references it; if the parent   *)
(* write fails, neither collection is changed.                            *)
C18_ParentWrittenFirst ==
    /\ \A id \in IdsOf(labels) :
          ParentWrittenFirst(labels, notes, id, LabelSaveFailed, NoteSaveFailed, BOOLEAN)
    /\ \A id \in IdsOf(taskLabels) :
          ParentWrittenFirst(taskLabels, tasks, id, TaskLabelSaveFailed, TaskSaveFailed,
                             BOOLEAN)

(* C20: a task created through POST /api/tasks without a dueDate gets a  *)
(* dueDate equal to its creation time plus two days (48 hours); a         *)
(* supplied dueDate is stored as given, and a request without status      *)
(* yields status Todo.                                                    *)
C20_DefaultDueDate ==
    \A userIdHeader \in Users, body \in AnyTaskBodies, zone \in Zones, t1 \in Later(now) :
        \A t2 \in Later(t1) :
            LET h == PostTasks(tasks, taskLabels, userIdHeader, body, "new", now, t1, t2,
                               zone, NoFault)
            IN  h.status = 201 =>
                    /\ "dueDate" \notin DOMAIN body
                          => h.task[1].dueDate = h.task[1].createdAt + 48 * MsPerHour
                    /\ TruthyDate(body, "dueDate") => h.task[1].dueDate = body.dueDate
                    /\ "status" \notin DOMAIN body => h.task[1].status = "Todo"

---------------------------------------------------------------------------
(* Two server processes, each in one createNote / updateNote (createTask  *)
(* / updateTask) over the same collection file: a call is the step that   *)
(* reads the file and the step that writes it.                            *)

\* The collection the calls work on, and the record it holds at the start.
Shared == IF domain = "note" THEN notes ELSE tasks
SharedData == IF domain = "note" THEN SomeNote ELSE SomeTask
SharedFailure == IF domain = "note" THEN NoteSaveFailed ELSE TaskSaveFailed

\* The id process p's generator call returns.
RaceId(p) == IF domain = "note" THEN generateNoteId("", Digits(p))
             ELSE generateTaskId("", Digits(p))

\* The calls: a create, or an update of the title or the content of a record.
RaceCalls ==
    {[name |-> "create", title |-> t] : t \in Titles}
    \cup {[name |-> "update", id |-> id, userId |-> "u1", updates |-> u] :
             id \in IdsOf(Shared), u \in {("title" :> "t2"), ("content" :> "c2")}}

\* The call of process p on the array it has read, with a write that succeeds.
Applied(p, call, read) ==
    IF call.name = "create"
    THEN CreateIn(read, [SharedData EXCEPT !.title = call.title], RaceId(p), now, now,
                  NoFault, SharedFailure)
    ELSE UpdateIn(read, call.id, call.userId, call.updates, now, NoFault, SharedFailure)

\* The write that puts the changed records into the file as it is now.
PersistedPerRecord(current, read, written) ==
    LET changed == {i \in 1..Len(written) : i > Len(read) \/ written[i] # read[i]}
        idsNow == IdsOf(current)
        kept == [i \in 1..Len(current) |->
                    IF \E j \in changed : written[j].id = current[i].id
                    THEN written[CHOOSE j \in changed : written[j].id = current[i].id]
                    ELSE current[i]]
        added == {j \in changed : written[j].id \notin idsNow}
    IN  IF added = {} THEN kept ELSE Append(kept, written[CHOOSE j \in added : TRUE])

\* writeNotes(notes) / writeTasks(tasks): the file becomes the array the call
\* read, with the call's change, whatever the file holds now.
Persisted(current, read, written) == written

InitRace ==
    /\ domain \in {"note", "task"}
    /\ now = 0
    /\ users = <<>> /\ procs = NoCall
    /\ labels = <<>> /\ uploads = {} /\ taskLabels = <<>> /\ taskUploads = {}
    /\ \E n \in 0..1 :
          LET stored == IF n = 0 THEN <<>>
                        ELSE CreateIn(<<>>, SharedData, RaceId(0), 0, 0, NoFault,
                                      SharedFailure).file
          IN  IF domain = "note" THEN notes = stored /\ tasks = <<>>
              ELSE tasks = stored /\ notes = <<>>
    /\ issued = [k \in Kinds |-> IF k = domain THEN Len(Shared) ELSE 0]
    /\ calls = 0

\* readNotes() / readTasks() at the start of the call.
readStep(p) ==
    \E call \in RaceCalls :
        /\ procs[p].pc = "idle"
        /\ procs' = [procs EXCEPT ![p] = [pc |-> "read", call |-> call,
                                          read |-> readFile(Shared, NoFault)]]
        /\ UNCHANGED <<users, domain, noteVars, taskVars, now, issued, calls>>

\* The rest of the call: the change on the array read, writeNotes(notes) /
\* writeTasks(tasks), and the return.  An update that finds no record
\* returns null without writing.
writeStep(p) ==
    /\ procs[p].pc = "read"
    /\ LET r == Applied(p, procs[p].call, procs[p].read)
           file == IF r.ret = <<>> THEN Shared ELSE Persisted(Shared, procs[p].read, r.file)
       IN  /\ IF domain = "note" THEN notes' = file /\ tasks' = tasks
              ELSE tasks' = file /\ notes' = notes
           /\ procs' = [procs EXCEPT ![p] =
                           [pc |-> "done", call |-> procs[p].call, read |-> procs[p].read,
                            ret |-> r.ret,
                            nth |-> 1 + Cardinality({q \in Procs : procs[q].pc = "done"})]]
    /\ UNCHANGED <<users, domain, labels, uploads, taskLabels, taskUploads, now, issued, calls>>

NextRace == \E p \in Procs : readStep(p) \/ writeStep(p)

SpecRace == InitRace /\ [][NextRace]_vars

\* Both calls have returned a record, after reading the same array; q wrote last.
BothReadTheSame(p, q) ==
    /\ procs[p].pc = "done" /\ procs[q].pc = "done"
    /\ procs[p].ret # <<>> /\ procs[q].ret # <<>>
    /\ procs[p].read = procs[q].read
    /\ procs[p].nth = 1 /\ procs[q].nth = 2

(* C16: when two operations on one collection both read the same prior    *)
(* state, the write of the second replaces the whole file: the collection *)
(* is the prior state with the second operation's change alone, the       *)
(* record the first operation returned is not in it, and both operations  *)
(* have returned their record (success).  Such an interleaving exists.    *)
C16_LastWriteWins ==
    \A p \in Procs : \A q \in Procs \ {p} :
        BothReadTheSame(p, q) =>
            /\ Shared = Applied(q, procs[q].call, procs[q].read).file
            /\ procs[p].ret[1].id # procs[q].ret[1].id
                  => \A i \in 1..Len(Shared) : Shared[i] # procs[p].ret[1]
            /\ \E i \in 1..Len(Shared) : Shared[i] = procs[q].ret[1]

\* Process 1 has created a record and process 2 has updated another record,
\* both after reading the same file and both returning their record; the file
\* holds the update and not the created record.
C16_Witness ==
    /\ BothReadTheSame(1, 2)
    /\ procs[1].call.name = "create" /\ procs[2].call.name = "update"
    /\ Len(Shared) = Len(procs[1].read)
    /\ \A i \in 1..Len(Shared) : Shared[i].id # procs[1].ret[1].id
    /\ \E i \in 1..Len(Shared) : Shared[i] = procs[2].ret[1]

\* The delete of the stored label `id` leaves every parent that does not
\* refer to the label as it was.
OthersIdentical(file, parentFile, id, failure, parentFailure) ==
    \A stamps \in Stamps(Len(parentFile)) :
        LET r == DeleteLabelIn(file, parentFile, id, stamps, NoFault, failure, parentFailure)
        IN  r.ret = <<TRUE>> =>
                \A i \in 1..Len(parentFile) :
                    ~Refers(parentFile[i], id) => r.parentFile[i] = parentFile[i]

(* C21: deleteLabel(id) (deleteTaskLabel(id)) changes only the parents    *)
(* that referred to the label: a note (task) whose labels array has no    *)
(* entry with that id is identical before and after the call, its         *)
(* updatedAt included.                                                    *)
C21_DeleteLabelKeepsOthers ==
    /\ \A id \in IdsOf(labels) :
          OthersIdentical(labels, notes, id, LabelSaveFailed, NoteSaveFailed)
    /\ \A id \in IdsOf(taskLabels) :
          OthersIdentical(taskLabels, tasks, id, TaskLabelSaveFailed, TaskSaveFailed)

\* Another label than `id` has the name, compared case-insensitively.
NameOfOther(file, id, name) ==
    \E i \in 1..Len(file) : file[i].id # id /\ EqualIgnoringCase(file[i].name, name)

\* updateLabel(id, {name}) on one label collection, for the names of `names`.
RenameChecksOthers(file, idArgs, names, exists, failure) ==
    \A id \in idArgs, name \in names :
        LET r == UpdateLabelIn(file, id, ("name" :> name), now, NoFault, exists, failure)
            old == findLabelById(file, id)
        IN  IF old = <<>>
            THEN r.ret = <<>> /\ r.thrown = "" /\ r.file = file
            ELSE IF NameOfOther(file, id, name)
            THEN r.thrown = exists /\ r.ret = <<>> /\ r.file = file
            ELSE /\ r.thrown = "" /\ r.ret # <<>>
                 /\ r.ret[1].name = name
                 /\ r.ret[1].id = id /\ r.ret[1].createdAt = old[1].createdAt
                 /\ findLabelById(r.file, id) = r.ret

(* C22: updateLabel(id, {name}) compares the new name only with labels    *)
(* other than id: it raises 'already exists' and leaves the label         *)
(* collection unchanged when another label has that name                  *)
(* case-insensitively, it succeeds when the new name differs from the     *)
(* label's own name only in letter case, it returns null without writing  *)
(* when id is absent, and on success it keeps the label's id and          *)
(* createdAt.                                                             *)
C22_RenameChecksOthers ==
    /\ RenameChecksOthers(labels, LabelIdArgs, Names, LabelExists, LabelSaveFailed)
    /\ RenameChecksOthers(taskLabels, TaskLabelIdArgs, Names, TaskLabelExists,
                          TaskLabelSaveFailed)

---------------------------------------------------------------------------
(* POST /api/upload.  The handler is async: it looks the note up, awaits   *)
(* file.arrayBuffer() and writeFile(filePath, buffer), and then calls      *)
(* addFileToNote.  Other requests of the same server run at each await.    *)

\* The handler up to its first await after the ownership check: 401 with no
\* x-user-id header, 404 when findNoteByIdAndUserId returns null.  The
\* request carries a file within the size limit and a note id.
uploadCheck(p) ==
    \E userIdHeader \in Headers, noteId \in NoteIdArgs :
        LET note == IF userIdHeader = NoUser THEN <<>>
                    ELSE findNoteByIdAndUserId(notes, noteId, userIdHeader)
            status == IF userIdHeader = NoUser THEN 401
                      ELSE IF note = <<>> THEN 404 ELSE 0
        IN  /\ procs[p].pc = "idle"
            /\ procs' = [procs EXCEPT ![p] =
                            [pc |-> IF status = 0 THEN "checked" ELSE "done",
                             userId |-> userIdHeader, noteId |-> noteId,
                             status |-> status, path |-> ""]]
            /\ UNCHANGED <<users, domain, noteVars, taskVars, now, issued, calls>>

\* generateFileId() and await writeFile(filePath, buffer): the file is in
\* data/uploads, and the handler holds its record.
uploadWrite(p) ==
    \E d \in Draws("file"), type \in FileTypes :
        LET f == [FileRecord(generateFileId(d[1], d[2]), now) EXCEPT !.type = type]
        IN  /\ procs[p].pc = "checked"
            /\ Issue("file")
            /\ uploads' = uploads \cup {f.path}
            /\ procs' = [procs EXCEPT ![p] =
                            [pc |-> "written", userId |-> procs[p].userId,
                             noteId |-> procs[p].noteId, status |-> 0, path |-> f.path,
                             f |-> f]]
            /\ UNCHANGED <<users, domain, notes, labels, taskVars, now, calls>>

\* addFileToNote(noteId, userIdHeader, fileRecord): 500 'Failed to attach
\* file to note' when it returns null, 201 otherwise.
uploadAttach(p) ==
    LET r == AddFileIn(notes, procs[p].noteId, procs[p].userId, procs[p].f, now,
                       NoFault, NoteSaveFailed)
    IN  /\ procs[p].pc = "written"
        /\ notes' = r.file
        /\ procs' = [procs EXCEPT ![p] =
                        [pc |-> "done", userId |-> procs[p].userId,
                         noteId |-> procs[p].noteId,
                         status |-> IF r.ret = <<>> THEN 500 ELSE 201,
                         path |-> procs[p].path]]
        /\ UNCHANGED <<users, domain, labels, uploads, taskVars, now, issued, calls>>

InitUpload == Init /\ domain = "note"

NextUpload ==
    \/ createNote(FALSE)
    \/ deleteNote(FALSE)
    \/ \E p \in Procs : uploadCheck(p) \/ uploadWrite(p) \/ uploadAttach(p)

SpecUpload == InitUpload /\ [][NextUpload]_vars

\* The paths the files arrays of the notes name.
ReferencedPaths == {f.path : f \in FilesOf(notes)}

\* C23: every file the upload handler has written into the uploads
\* directory is, once the handler has answered, recorded in the files array
\* of a note, whatever other requests ran between its steps: no file stays
\* on disk that no note references.
C23_UploadedFileReferenced ==
    \A p \in Procs :
        (procs[p].pc = "done" /\ procs[p].path \in uploads)
            => procs[p].path \in ReferencedPaths

\* The uploads without a deleteNote between the check and the attach keep
\* the claim's property: the handler answers 201 and the note names the file.
C23_AttachedWhenNoteStays ==
    \A p \in Procs :
        (procs[p].pc = "done" /\ procs[p].status = 201 /\ procs[p].path \in uploads)
            => procs[p].path \in ReferencedPaths
---------------------------------------------------------------------------
(* Label ids of a request body. *)

MaxIds == 3

\* body.labelIds: arrays of ids, with repeats and with ids of no label.
IdArrays(idArgs) == UNION {[1..n -> idArgs] : n \in 0..MaxIds}

Range(ids) == {ids[k] : k \in 1..Len(ids)}

\* ids.includes(x)
includes(ids, x) == \E k \in 1..Len(ids) : ids[k] = x

\* The lookup that maps the request's ids to labels, one entry per id found.
findLabelsByIdArrayMapped(file, ids) ==
    LET known == Filter(ids, LAMBDA x : x \in IdsOf(file))
    IN  [k \in 1..Len(known) |-> file[FindIndex(file, LAMBDA l : l.id = known[k])]]

\* findLabelsByIds(ids) / findTaskLabelsByIds(ids) on the array of the
\* request: labels.filter(label => ids.includes(label.id)).
findLabelsByIdArray(file, ids) == Filter(file, LAMBDA l : includes(ids, l.id))

\* Every label embedded in a record of parentFile has the id of a label of file.
EmbeddedKnown(parentFile, file) ==
    \A i \in 1..Len(parentFile) :
        \A j \in 1..Len(parentFile[i].labels) :
            parentFile[i].labels[j].id \in IdsOf(file)

\* The labels of a request: those of the collection the request names, once
\* each, and the ones the set of the ids gives.
RequestLabels(file, idArgs) ==
    \A ids \in IdArrays(idArgs) :
        LET ls == findLabelsByIdArray(file, ids)
        IN  /\ IdsOf(ls) = Range(ids) \cap IdsOf(file)
            /\ Len(ls) = Cardinality(IdsOf(ls))
            /\ \A k \in 1..Len(ls) : \E i \in 1..Len(file) : ls[k] = file[i]
            /\ ls = findLabelsByIds(file, Range(ids))

\* C24: after any sequence of label and note (task) operations without I/O
\* failures, every label embedded in a persisted note (task) has the id of a
\* label of the label collection; the ids of a request that match no label
\* are dropped, and an id the request repeats gives one embedded copy.
C24_EmbeddedLabelsExist ==
    /\ EmbeddedKnown(notes, labels)
    /\ EmbeddedKnown(tasks, taskLabels)
    /\ RequestLabels(labels, LabelIdArgs)
    /\ RequestLabels(taskLabels, TaskLabelIdArgs)

\* A note embeds a label, and a request that names that label twice and a
\* label that does not exist gets the one label.
C24_Witness ==
    \E i \in 1..Len(notes) :
        /\ notes[i].labels # <<>>
        /\ LET id == notes[i].labels[1].id
           IN  findLabelsByIdArray(labels, <<id, "label_none", id>>)
                   = findLabelById(labels, id)
---------------------------------------------------------------------------
(* DELETE /api/notes/{id}/files/{fileId} *)

\* 401 with no x-user-id header, 404 'Note or file not found' when
\* removeFileFromNote returns null, 200 with the note it returns otherwise,
\* 500 when it throws.
DeleteNoteFile(file, dir, userIdHeader, id, fileId, t, e) ==
    IF userIdHeader = NoUser
    THEN [file |-> file, dir |-> dir, status |-> 401, note |-> <<>>]
    ELSE LET r == RemoveFileIn(file, dir, id, userIdHeader, fileId, t, e, NoteSaveFailed)
         IN  [file |-> r.file, dir |-> r.dir,
              status |-> IF r.thrown # "" THEN 500
                         ELSE IF r.ret = <<>> THEN 404 ELSE 200,
              note |-> r.ret]

\* Whether the note of the caller with this id has a file with this fileId.
HasFile(file, id, userId, fileId) ==
    \E i \in 1..Len(file) :
        /\ file[i].id = id /\ file[i].userId = userId
        /\ \E j \in 1..Len(file[i].files) : file[i].files[j].id = fileId

\* C25: DELETE /api/notes/{id}/files/{fileId} answers 404 and leaves the
\* note as it is, files and updatedAt, when the caller's note has no file
\* with that fileId; it answers 200 only when it removed an entry.
C25_MissingFileIs404 ==
    \A userId \in Users, id \in IdsOf(notes), fileId \in FileIdArgs(notes, "file_none"),
       t \in Later(now) :
        LET r == DeleteNoteFile(notes, uploads, userId, id, fileId, t, NoFault)
        IN  /\ (findNoteByIdAndUserId(notes, id, userId) # <<>>
                    /\ ~HasFile(notes, id, userId, fileId))
                => (r.status = 404 /\ r.file = notes)
            /\ r.status = 200 => HasFile(notes, id, userId, fileId)
---------------------------------------------------------------------------
(* Creates and updates on a collection whose read fails. *)

\* The outcome of a call that wrote: success, and a file that holds the
\* record the call returns and nothing else.
HoldsOnlyItsRecord(r) == r.thrown = "" /\ r.ret # <<>> /\ r.file = r.ret

\* The creates of the note repository or the task repository after a failed
\* read, and their updates if they write.
WipedByNoteWrite(file, data, id, idArgs, updates, failure) ==
    /\ \A t2 \in Later(now) :
          HoldsOnlyItsRecord(CreateIn(file, data, id, now, t2, ReadFails, failure))
    /\ \A rid \in idArgs, userId \in Users, u \in updates :
          LET r == UpdateIn(file, rid, userId, u, now, ReadFails, failure)
          IN  r.file # file => HoldsOnlyItsRecord(r)

\* The same for a label repository.
WipedByLabelWrite(file, id, idArgs, exists, failure) ==
    /\ \A labelData \in LabelData, t2 \in Later(now) :
          HoldsOnlyItsRecord(CreateLabelIn(file, labelData, id, now, t2, ReadFails,
                                           exists, failure))
    /\ \A rid \in idArgs, u \in LabelUpdates :
          LET r == UpdateLabelIn(file, rid, u, now, ReadFails, exists, failure)
          IN  r.file # file => HoldsOnlyItsRecord(r)

\* C26: a create or update that runs after the read of its collection
\* failed, and whose write succeeds, persists a collection that holds only
\* the record it produced, and reports success: the records the file held
\* before are gone.
C26_WriteAfterFailedReadWipes ==
    /\ \A d \in Draws("note") :
          WipedByNoteWrite(notes, SomeNote, generateNoteId(d[1], d[2]), NoteIdArgs,
                           NoteUpdates, NoteSaveFailed)
    /\ \A d \in Draws("task") :
          WipedByNoteWrite(tasks, SomeTask, generateTaskId(d[1], d[2]), TaskIdArgs,
                           TaskUpdates, TaskSaveFailed)
    /\ \A d \in Draws("label") :
          WipedByLabelWrite(labels, generateLabelId(d[1], d[2]), LabelIdArgs,
                            LabelExists, LabelSaveFailed)
    /\ \A d \in Draws("task_label") :
          WipedByLabelWrite(taskLabels, generateTaskLabelId(d[1], d[2]), TaskLabelIdArgs,
                            TaskLabelExists, TaskLabelSaveFailed)

\* notes.json holds a note, and a createNote whose read fails leaves the
\* file with the new note alone.
C26_Witness ==
    /\ notes # <<>>
    /\ \E d \in Draws("note") :
          LET r == CreateIn(notes, SomeNote, generateNoteId(d[1], d[2]), now, now,
                            ReadFails, NoteSaveFailed)
          IN  /\ Len(r.file) = 1
              /\ r.ret # <<>>
              /\ \A i \in 1..Len(notes) : notes[i].id \notin IdsOf(r.file)
---------------------------------------------------------------------------
(* GET /api/files/{fileId}/view *)

NoNote == ""

\* type.split('/')[0]
split0(type) ==
    LET k == FindIndex(type, LAMBDA c : c = "/")
    IN  IF k = 0 THEN type ELSE SubSeq(type, 1, k - 1)

\* s.startsWith(p)
startsWith(str, p) == Len(p) <= Len(str) /\ SubSeq(str, 1, Len(p)) = p

viewableTypes ==
    <<ImageJpeg, ImageJpg, ImagePng, ImageGif, ImageWebp, ImageSvg, ApplicationPdf>>

\* viewableTypes.some(type => file.type.startsWith(type.split('/')[0]) || file.type === type)
viewable(fileType) ==
    \E k \in 1..Len(viewableTypes) :
        startsWith(fileType, split0(viewableTypes[k])) \/ fileType = viewableTypes[k]

\* The handler: 400 with no noteId, 401 with no userId, 404 when the caller
\* has no such note or the note no such file, 400 when the type is not
\* viewable, and then the content of the file, or 404 when it is not on disk.
ViewFile(file, dir, noteId, userId, fileId) ==
    IF noteId = NoNote THEN [status |-> 400, content |-> <<>>]
    ELSE IF userId = NoUser THEN [status |-> 401, content |-> <<>>]
    ELSE LET note == findNoteByIdAndUserId(file, noteId, userId)
             found == IF note = <<>> THEN <<>>
                      ELSE Find(note[1].files, LAMBDA f : f.id = fileId)
         IN  IF found = <<>> THEN [status |-> 404, content |-> <<>>]
             ELSE IF ~viewable(found[1].type) THEN [status |-> 400, content |-> <<>>]
             ELSE IF found[1].path \in dir THEN [status |-> 200, content |-> <<found[1].path>>]
             ELSE [status |-> 404, content |-> <<>>]

\* An image type, or application/pdf.
ImageOrPdf(fileType) ==
    startsWith(fileType, <<"i", "m", "a", "g", "e", "/">>) \/ fileType = ApplicationPdf

\* The files with this id attached to the note with this id of this user.
AttachedFiles(file, noteId, userId, fileId) ==
    {f \in FilesOf(file) :
        /\ f.id = fileId
        /\ \E i \in 1..Len(file) :
              /\ file[i].id = noteId /\ file[i].userId = userId
              /\ \E j \in 1..Len(file[i].files) : file[i].files[j] = f}

\* C27: GET /api/files/{fileId}/view returns content only for a file
\* attached to a note the caller owns and only when the stored MIME type is
\* an image type or application/pdf; for a file of any other type, another
\* application/* type included, it answers 400.
C27_ViewOnlyImagesAndPdf ==
    \A userId \in Headers, noteId \in NoteIdArgs \cup {NoNote},
       fileId \in FileIdArgs(notes, "file_none") :
        LET r == ViewFile(notes, uploads, noteId, userId, fileId)
            attached == AttachedFiles(notes, noteId, userId, fileId)
        IN  /\ r.status = 200 =>
                  \E f \in attached : ImageOrPdf(f.type) /\ r.content = <<f.path>>
            /\ \A f \in attached : ~ImageOrPdf(f.type) => r.status = 400

\* Content is returned only for a file attached to a note of the caller.
C27_ViewOnlyOwnFiles ==
    \A userId \in Headers, noteId \in NoteIdArgs \cup {NoNote},
       fileId \in FileIdArgs(notes, "file_none") :
        LET r == ViewFile(notes, uploads, noteId, userId, fileId)
        IN  r.status = 200 =>
                \E f \in AttachedFiles(notes, noteId, userId, fileId) : r.content = <<f.path>>
---------------------------------------------------------------------------
(* The label routes: POST /api/labels and PUT /api/labels/{id}. *)

\* PUT /api/labels/{id}: the color is validated `if (body.color && ...)`,
\* the name is trimmed and the color lower-cased when they are not undefined.
PutLabel(file, userIdHeader, id, body, t, e) ==
    IF userIdHeader = NoUser
    THEN [file |-> file, status |-> 401, thrown |-> ""]
    ELSE IF Truthy(body, "color") /\ ~IsHexColor(body.color)
    THEN [file |-> file, status |-> 400, thrown |-> ""]
    ELSE LET updateData ==
                 (IF "name" \in DOMAIN body THEN ("name" :> trim(body.name)) ELSE Empty)
                 @@ (IF "color" \in DOMAIN body THEN ("color" :> toLowerCase(body.color))
                     ELSE Empty)
             r == UpdateLabelIn(file, id, updateData, t, e, LabelExists, LabelSaveFailed)
         IN  [file |-> r.file, thrown |-> r.thrown,
              status |-> IF r.thrown = LabelExists THEN 409
                         ELSE IF r.thrown # "" THEN 500
                         ELSE IF r.ret = <<>> THEN 404 ELSE 200]

\* CreateLabelRequest / UpdateLabelRequest bodies: name and color, each
\* possibly missing.
LabelRequests ==
    LabelBodies
    \cup {("name" :> n) @@ ("color" :> c) : n \in BodyNames, c \in BodyColors}

POST_labels ==
    \E userIdHeader \in Headers, body \in LabelRequests, d \in Draws("label"),
       t2 \in Later(now) :
        LET h == PostLabels(labels, userIdHeader, body, generateLabelId(d[1], d[2]),
                            now, t2, NoFault)
        IN  /\ Count /\ Len(labels) < MaxLabels
            /\ labels' = h.file
            /\ IF h.status = 201 THEN now' = t2 /\ Issue("label")
               ELSE UNCHANGED <<now, issued>>
            /\ UNCHANGED <<procs, users, domain, notes, uploads, taskVars>>

PUT_labels_id ==
    \E userIdHeader \in Headers, id \in LabelIdArgs, body \in LabelRequests :
        LET h == PutLabel(labels, userIdHeader, id, body, now, NoFault)
        IN  /\ Count
            /\ labels' = h.file
            /\ UNCHANGED <<procs, users, domain, notes, uploads, taskVars, now, issued>>

InitLabels == Init /\ domain = "note"

NextLabels == Tick \/ POST_labels \/ PUT_labels_id

SpecLabels == InitLabels /\ [][NextLabels]_vars

LowerHexDigits == {"0", "1", "2", "3", "4", "5", "6", "7", "8", "9",
                   "a", "b", "c", "d", "e", "f"}

\* A lower-case hex string of the form #rrggbb.
LowerHexColor(c) ==
    /\ Len(c) = 7
    /\ c[1] = "#"
    /\ \A i \in 2..7 : c[i] \in LowerHexDigits

\* C28: after any sequence of POST /api/labels and PUT /api/labels/{id}
\* requests with arbitrary bodies, every persisted note-label has a color
\* that is a lower-case hex string of the form #rrggbb.
C28_ColorsLowerHex ==
    \A i \in 1..Len(labels) : LowerHexColor(labels[i].color)

\* The same for the labels POST /api/labels creates, before any PUT
\* changes them.
C28_CreatedColorsLowerHex ==
    \A userIdHeader \in Headers, body \in LabelRequests, d \in Draws("label") :
        LET h == PostLabels(labels, userIdHeader, body, generateLabelId(d[1], d[2]),
                            now, now, NoFault)
        IN  h.status = 201 => LowerHexColor(h.file[Len(h.file)].color)
---------------------------------------------------------------------------
(* Status transitions of a task. *)

\* r is task with the status `to` and the clock reading t as updatedAt, and
\* no other field changed.
MovedTo(r, task, to, t) ==
    /\ DOMAIN r = DOMAIN task
    /\ r.status = to
    /\ r.updatedAt = t
    /\ \A f \in DOMAIN task \ {"status", "updatedAt"} : r[f] = task[f]

\* One updateTask call of the owner moves tasks[i] to the status `to`:
\* it returns the moved task and persists it in the place of the old one.
MovesInOneCall(i, to, t) ==
    LET r == UpdateIn(tasks, tasks[i].id, tasks[i].userId, ("status" :> to), t, NoFault,
                      TaskSaveFailed)
    IN  /\ r.thrown = ""
        /\ r.ret # <<>>
        /\ MovedTo(r.ret[1], tasks[i], to, t)
        /\ r.file = [tasks EXCEPT ![i] = r.ret[1]]

\* C29: updateTask imposes no transition guard.  For every pair of statuses
\* (s, t) of Todo, In Progress, Done, an owned task in status s is moved to
\* t by one updateTask call, which succeeds whatever s is and changes no
\* field other than status and updatedAt.
C29_AnyStatusToAny ==
    \A i \in 1..Len(tasks), to \in Statuses, t \in Later(now) :
        tasks[i].status \in Statuses => MovesInOneCall(i, to, t)

\* A task that is Done is moved back to Todo, and back to In Progress, by
\* one call each.
C29_Witness ==
    \E i \in 1..Len(tasks) :
        /\ tasks[i].status = "Done"
        /\ MovesInOneCall(i, "Todo", now)
        /\ MovesInOneCall(i, "In Progress", now)
---------------------------------------------------------------------------
(* Title and content of the persisted notes and tasks. *)

\* Every record of the file has a title and a content that are not empty.
TitledAndFilled(file) ==
    \A i \in 1..Len(file) :
        /\ "title" \in DOMAIN file[i] /\ file[i].title # ""
        /\ "content" \in DOMAIN file[i] /\ file[i].content # ""

\* C30: after any sequence of note and task create and update requests
\* through the API, every persisted note and task has a non-empty title and
\* a non-empty content: what POST requires also holds after PUT.
C30_TitleAndContentRequired == TitledAndFilled(notes) /\ TitledAndFilled(tasks)

\* The records POST /api/notes and POST /api/tasks create have both.
C30_CreatedTitledAndFilled ==
    /\ \A userIdHeader \in Headers, body \in AnyTaskBodies, t1 \in Later(now) :
          TitledAndFilled(PostTasks(<<>>, taskLabels, userIdHeader, body, "new", now, t1, t1,
                                    UTC, NoFault).file)
    /\ \A userIdHeader \in Headers, body \in AnyTaskBodies, t1 \in Later(now) :
          TitledAndFilled(PostNotes(<<>>, labels, userIdHeader, body, "new", t1, t1,
                                    NoFault).file)
====
